---- MODULE Spec2Model ----
(***************************************************************************)
(* pg_bulkload, lib/reader.c: the Reader (configuration resolution and the *)
(* ReaderNext loop with its parse-error quota), the Filter (FilterInit,    *)
(* FilterTuple, tupledesc_match) and the TupleFormer's all-null tuple.     *)
(*                                                                         *)
(* Spec        the load: FilterInit, then calls of ReaderNext, each        *)
(*             stepping through ParserRead, FilterTuple and the PG_CATCH   *)
(*             block of ReaderNext.                                        *)
(* SpecConfig  ReaderCreate: ParseControlFile applying one directive at a  *)
(*             time, then the mandatory checks, defaults, the file-name    *)
(*             conflict check and ParserInit.                              *)
(***************************************************************************)
EXTENDS Integers, Sequences, FiniteSets, TLC

(* ------------------------------------------------------------------ *)
(* Bounds of the model                                                 *)
(* ------------------------------------------------------------------ *)

\* records the input holds at most
MaxRecords == 3
\* PARSE_ERRORS quotas tried: 0..MaxQuota, and INT64_MAX
MaxQuota == 2
\* arguments of the filter function: 1..MaxArgs
MaxArgs == 2

\* INT64_MAX of the C code; the largest integer TLC represents stands for it
INT64_MAX == 2147483647

NULL == << >>

(* ------------------------------------------------------------------ *)
(* Tuple descriptors and tupledesc_match                               *)
(* ------------------------------------------------------------------ *)

Attr(typid, dropped, len, align) ==
    [atttypid |-> typid, attisdropped |-> dropped, attlen |-> len, attalign |-> align]

\* the target table's row type: (int4, text)
TargetDesc ==
    [tdtypeid |-> "t_row",
     attrs |-> << Attr("int4", FALSE, 4, "i"), Attr("text", FALSE, -1, "i") >>]

\* a composite type with the target's column types
OkDesc ==
    [tdtypeid |-> "c_ok",
     attrs |-> << Attr("int4", FALSE, 4, "i"), Attr("text", FALSE, -1, "i") >>]

\* a composite type whose second column has another type
BadDesc ==
    [tdtypeid |-> "c_bad",
     attrs |-> << Attr("int4", FALSE, 4, "i"), Attr("int4", FALSE, 4, "i") >>]

\* a composite type with one column only
ShortDesc ==
    [tdtypeid |-> "c_short", attrs |-> << Attr("int4", FALSE, 4, "i") >>]

natts(desc) == Len(desc.attrs)

\* TRUE when tupledesc_match returns, FALSE when it raises DATATYPE_MISMATCH
tupledesc_match(dst, src) ==
    /\ natts(dst) = natts(src)
    /\ \A i \in 1..natts(dst) :
        \/ dst.attrs[i].atttypid = src.attrs[i].atttypid
        \/ /\ dst.attrs[i].attisdropped
           /\ dst.attrs[i].attlen = src.attrs[i].attlen
           /\ dst.attrs[i].attalign = src.attrs[i].attalign

\* lookup_rowtype_tupdesc: a named composite type by its type id, an
\* anonymous RECORD by the typmod its descriptor was registered under
lookup_rowtype_tupdesc(typeid, typmod) ==
    CASE typeid = "t_row" -> TargetDesc
      [] typeid = "c_ok" -> OkDesc
      [] typeid = "c_bad" -> BadDesc
      [] typeid = "c_short" -> ShortDesc
      [] typeid = "record" /\ typmod = "ok" -> [OkDesc EXCEPT !.tdtypeid = "record"]
      [] typeid = "record" /\ typmod = "bad" -> [BadDesc EXCEPT !.tdtypeid = "record"]
      [] OTHER -> [ShortDesc EXCEPT !.tdtypeid = "record"]

(* ------------------------------------------------------------------ *)
(* The filter function's catalog row (pg_proc)                         *)
(* ------------------------------------------------------------------ *)

\* prorettype: the target's row type, another composite type, RECORD or a
\* scalar; outdesc: the typmod of the descriptor built from OUT parameters
\* (build_function_result_tupdesc_t), "none" when there are none
RetKinds ==
    { [prorettype |-> "t_row", outdesc |-> "none"],
      [prorettype |-> "c_ok", outdesc |-> "none"],
      [prorettype |-> "c_bad", outdesc |-> "none"],
      [prorettype |-> "record", outdesc |-> "none"],
      [prorettype |-> "record", outdesc |-> "ok"],
      [prorettype |-> "record", outdesc |-> "bad"],
      [prorettype |-> "int4", outdesc |-> "none"] }

Procs ==
    { [nargs |-> n, proisstrict |-> s, prorettype |-> r.prorettype, outdesc |-> r.outdesc] :
        n \in 1..MaxArgs, s \in BOOLEAN, r \in RetKinds }

NoProc == [nargs |-> 0, proisstrict |-> FALSE, prorettype |-> "none", outdesc |-> "none"]

get_typtype(typid) == IF typid \in {"t_row", "c_ok", "c_bad", "c_short"} THEN "c" ELSE "b"

\* sqlerrcodes an error raised by the parser or the filter function may carry
ErrCodes == {"DATA_EXCEPTION", "QUERY_CANCELED", "ADMIN_SHUTDOWN"}

Max(a, b) == IF a >= b THEN a ELSE b

(* ------------------------------------------------------------------ *)
(* State                                                               *)
(* ------------------------------------------------------------------ *)

VARIABLES
    pc,                 \* where the load is: init, idle (between calls), read, filter,
                        \* f_invoke, f_catch, f_ret, catch, until, raised
    max_parse_errors,   \* rd->max_parse_errors
    parse_errors,       \* rd->parse_errors
    parse_fp,           \* rd->parse_fp: FALSE is NULL, TRUE an open file
    eof, tuple,         \* locals of ReaderNext
    ccxt,               \* local of ReaderNext: CurrentMemoryContext at entry
    count,              \* parser->count: records read
    parsing_field,      \* parser->parsing_field
    parser_eof,         \* the parser has reported end of input
    err,                \* sqlerrcode of the error in flight, "none" without one
    proc,               \* the filter function's pg_proc row, NoProc without FILTER
    filter,             \* Filter: funcstr, nargs, fn_strict, tupledesc_matched
    former_isnull,      \* former->isnull, Max(nargs, natts) entries
    fcinfo,             \* fcinfo.isnull and the datum returned (type id, typmod)
    oldcontext, oldowner,   \* locals of FilterTuple
    subxact_depth,      \* nesting depth of sub-transactions
    cur_ctx,            \* CurrentMemoryContext
    cur_owner,          \* CurrentResourceOwner
    \* what the load wrote and what it did, for the properties
    log,                \* the "Parse error Record" lines: <<ordinal, record, column>>
    quota_logs,         \* "Maximum parse error count exceeded" lines
    bad_records,        \* records dumped to the parse bad file (their ordinals)
    opens,              \* AllocateFile calls on the parse bad file that succeeded
    begins, releases, rollbacks,  \* sub-transaction calls made by FilterTuple
    invocations,        \* FunctionCallInvoke calls
    shape_checks,       \* tupledesc_match calls
    f_entry,            \* at the last entry of FilterTuple: depth, context and owner,
                        \* former->isnull, and the calls counted so far
    last,               \* the last step's outcome
    exit,               \* how the last ReaderNext call ended: none, row, norow, raise
    done,               \* why ReaderNext first returned no row: no, eof, quota
    stop,               \* why eof was set in this call
    late,               \* ReaderNext was called again after it returned no row
    closed              \* ReaderClose: called, its onError, and its calls of
                        \* ParserTerm, FreeFile(rd->parse_fp) and pfree(rd)

load_vars ==
    << pc, max_parse_errors, parse_errors, parse_fp, eof, tuple, ccxt, count,
       parsing_field, parser_eof, err, proc, filter, former_isnull, fcinfo,
       oldcontext, oldowner, subxact_depth, cur_ctx, cur_owner, log, quota_logs,
       bad_records, opens, begins, releases, rollbacks, invocations,
       shape_checks, f_entry, last, exit, done, stop, late, closed >>

\* ReaderCreate / ParseControlFile
VARIABLES
    rd,                 \* the Reader being built: relid, infile, logfile, parse_badfile,
                        \* dup_badfile, parser, writer, max_parse_errors,
                        \* max_dup_errors, limit, on_duplicate, verbose
    conf_pc,            \* file, options (the two loops of ParseControlFile), resolved
                        \* (ParseControlFile returned), created (ReaderCreate
                        \* returned), failed (an ERROR was raised)
    conf_err,           \* the message of the ERROR raised, "none" without one
    nlines,             \* line.line: lines handed to ParseControlFileLine
    offered,            \* the keyword of the last line when it was none of the
                        \* resolver's own and went to the parser, "none" otherwise
    parser_inits,       \* calls of ParserInit
    applied,            \* keywords a directive has set, aliases under their keyword
    twice               \* keywords set again by a later directive without an ERROR

conf_vars ==
    << rd, conf_pc, conf_err, nlines, offered, parser_inits, applied, twice >>

\* one call of tupledesc_match
VARIABLES
    match_pc,           \* idle, start (called), loop (in the for loop), returned,
                        \* raised (DATATYPE_MISMATCH)
    dst_tupdesc,        \* the target table's descriptor
    src_tupdesc,        \* the descriptor of the function's result
    match_i,            \* i, the loop's index (from 0)
    match_detail        \* which ereport was raised: none, natts, type, storage

match_vars == << match_pc, dst_tupdesc, src_tupdesc, match_i, match_detail >>

\* CheckerInit and CheckerTerm on one Checker
VARIABLES
    chk_pc,             \* idle, start (before CheckerInit), inited, termed
    checker,            \* the Checker: rel, encoding, db_encoding, check_encoding,
                        \* check_constraints, has_constraints, has_not_null,
                        \* resultRelInfo, estate, slot
    rel,                \* the relation handed to CheckerInit: its columns'
                        \* attnotnull and its descriptor's constr
    freed               \* calls of heap_close on the relation, of
                        \* ExecDropSingleTupleTableSlot and of FreeExecutorState

checker_vars == << chk_pc, checker, rel, freed >>

\* ReaderCreate called twice with the same arguments
VARIABLES
    script,             \* the arguments: fname (none or a readable file), the lines
                        \* of the control file and the segments of the options
    run,                \* 1 or 2: which call is running
    first               \* how the first call's ParseControlFile ended: conf_pc,
                        \* conf_err and the Reader

again_vars == << script, run, first >>

\* the two loops of ParseControlFile over the bytes of their input
VARIABLES
    input,              \* the input: whether a control file is named, its lines,
                        \* the newline-ended segments of the options and what
                        \* follows the last newline; each with its length in bytes
    buf                 \* the line buffer buf[LINEBUF]: the highest index written,
                        \* whether a write fell outside of it, and whether that
                        \* write ended the process

line_vars == << input, buf >>

\* TupleFormerInit called on a filter and a target descriptor, then
\* TupleFormerNullTuple
VARIABLES
    fm_pc,              \* where TupleFormerInit stands
    fm_args,            \* its arguments: the Filter (funcstr, nargs, fn_ndargs)
                        \* and the target's TupleDesc
    former,             \* the TupleFormer: desc, values, isnull, attnum (indexed
                        \* from 0 as in C), the columns whose type information
                        \* was fetched, maxfields, minfields, and whether a
                        \* write fell outside of values or isnull
    fm_i                \* the loop variable i

former_vars == << fm_pc, fm_args, former, fm_i >>

unit_vars == << match_vars, checker_vars, again_vars, line_vars, former_vars >>

vars == << load_vars, conf_vars, unit_vars >>

NoFilter == [funcstr |-> FALSE, nargs |-> 0, fn_strict |-> FALSE, tupledesc_matched |-> FALSE]
NoCall == [isnull |-> FALSE, typeid |-> "none", typmod |-> "none"]
NoEntry == [xact |-> [depth |-> 0, ctx |-> "none", owner |-> "none"],
            isnull |-> << >>, invocations |-> 0, begins |-> 0]

\* former->values / former->isnull hold Max(nargs, natts) entries with a
\* filter, natts entries without one
maxatts(p) == IF p = NoProc THEN natts(TargetDesc) ELSE Max(p.nargs, natts(TargetDesc))

Quotas == (0..MaxQuota) \cup {INT64_MAX}

\* ReaderClose has not been called
NotClosed ==
    [called |-> FALSE, onError |-> FALSE, ParserTerm |-> 0, FreeFile |-> 0, pfree |-> 0]

\* the load before FilterInit, but for the quota and the filter function
LoadStart ==
    /\ pc = "init"
    /\ closed = NotClosed
    /\ parse_errors = 0
    /\ parse_fp = FALSE
    /\ eof = FALSE
    /\ tuple = NULL
    /\ ccxt = "none"
    /\ count = 0
    /\ parsing_field = -1
    /\ parser_eof = FALSE
    /\ err = "none"
    /\ filter = NoFilter
    /\ former_isnull = [i \in 1..maxatts(proc) |-> TRUE]
    /\ fcinfo = NoCall
    /\ oldcontext = "none"
    /\ oldowner = "none"
    /\ subxact_depth = 0
    /\ cur_ctx = "tuple_ctx"
    /\ cur_owner = "portal_owner"
    /\ log = << >>
    /\ quota_logs = 0
    /\ bad_records = << >>
    /\ opens = 0
    /\ begins = 0
    /\ releases = 0
    /\ rollbacks = 0
    /\ invocations = 0
    /\ shape_checks = 0
    /\ f_entry = NoEntry
    /\ last = "none"
    /\ exit = "none"
    /\ done = "no"
    /\ stop = "no"
    /\ late = FALSE

InitLoad ==
    /\ max_parse_errors \in Quotas
    /\ proc \in Procs \cup {NoProc}
    /\ LoadStart


(* ------------------------------------------------------------------ *)
(* TupleFormer                                                         *)
(* ------------------------------------------------------------------ *)

\* TupleFormerTuple: heap_form_tuple over former->desc; a tuple is modelled
\* by the null flags of its desc->natts columns
TupleFormerTuple(isnull) == SubSeq(isnull, 1, natts(TargetDesc))

\* the memset of TupleFormerNullTuple: desc->natts entries of isnull set
NullTupleIsnull(isnull) ==
    [i \in 1..Len(isnull) |-> IF i <= natts(TargetDesc) THEN TRUE ELSE isnull[i]]

\* TupleFormerNullTuple: the tuple formed after the memset
TupleFormerNullTuple(isnull) == TupleFormerTuple(NullTupleIsnull(isnull))

(* ------------------------------------------------------------------ *)
(* FilterInit                                                          *)
(* ------------------------------------------------------------------ *)

\* the result-type check of FilterInit: whether it raises, whether it ran
\* tupledesc_match, and tupledesc_matched afterwards
FilterInitCheck(p) ==
    IF p.prorettype = TargetDesc.tdtypeid
    THEN [raise |-> FALSE, checked |-> FALSE, matched |-> TRUE]
    ELSE IF p.prorettype = "record"
    THEN IF p.outdesc # "none"
         THEN IF tupledesc_match(TargetDesc, lookup_rowtype_tupdesc("record", p.outdesc))
              THEN [raise |-> FALSE, checked |-> TRUE, matched |-> TRUE]
              ELSE [raise |-> TRUE, checked |-> TRUE, matched |-> FALSE]
         ELSE [raise |-> FALSE, checked |-> FALSE, matched |-> FALSE]
    ELSE IF get_typtype(p.prorettype) # "c"
    THEN [raise |-> TRUE, checked |-> FALSE, matched |-> FALSE]
    ELSE [raise |-> FALSE, checked |-> FALSE, matched |-> FALSE]

FilterInit ==
    /\ pc = "init"
    /\ UNCHANGED << closed, conf_vars, unit_vars >>
    /\ IF proc = NoProc
       THEN /\ filter' = NoFilter
            /\ pc' = "idle"
            /\ last' = "init"
            /\ UNCHANGED << err, shape_checks >>
       ELSE LET r == FilterInitCheck(proc) IN
            /\ shape_checks' = IF r.checked THEN shape_checks + 1 ELSE shape_checks
            /\ IF r.raise
               THEN /\ err' = "DATATYPE_MISMATCH"
                    /\ pc' = "init_failed"
                    /\ last' = "init_raise"
                    /\ UNCHANGED filter
               ELSE /\ filter' = [funcstr |-> TRUE, nargs |-> proc.nargs,
                                  fn_strict |-> proc.proisstrict,
                                  tupledesc_matched |-> r.matched]
                    /\ pc' = "idle"
                    /\ last' = "init"
                    /\ UNCHANGED err
    /\ UNCHANGED << max_parse_errors, parse_errors, parse_fp, eof, tuple, ccxt, count,
                    parsing_field, parser_eof, proc, former_isnull, fcinfo,
                    oldcontext, oldowner, subxact_depth, cur_ctx, cur_owner, log,
                    quota_logs, bad_records, opens, begins, releases, rollbacks,
                    invocations, f_entry, exit, done, stop, late >>

(* ------------------------------------------------------------------ *)
(* ReaderNext                                                          *)
(* ------------------------------------------------------------------ *)

\* entry of ReaderNext and the first pass through the top of its do loop
ReaderNextEnter ==
    /\ pc = "idle"
    /\ ~closed.called
    /\ UNCHANGED << closed, conf_vars, unit_vars >>
    /\ ccxt' = cur_ctx
    /\ eof' = FALSE
    /\ tuple' = NULL
    /\ parsing_field' = -1
    /\ pc' = "read"
    /\ exit' = "running"
    /\ stop' = "no"
    /\ late' = (late \/ done # "no")
    /\ last' = "enter"
    /\ UNCHANGED << max_parse_errors, parse_errors, parse_fp, count, parser_eof, err,
                    proc, filter, former_isnull, fcinfo, oldcontext, oldowner,
                    subxact_depth, cur_ctx, cur_owner, log, quota_logs, bad_records,
                    opens, begins, releases, rollbacks, invocations, shape_checks,
                    f_entry, done >>

\* fields the parser expects: the function's arguments with a filter, the
\* target's columns without one
nfields == IF filter.funcstr THEN filter.nargs ELSE natts(TargetDesc)

\* a loop that does not take a NULL from the parser for the end of the input
EofAfterRead_Ignored(t, e) == e

\* "if (tuple == NULL) eof = true" after ParserRead returned
EofAfterRead(t, e) == IF t = NULL THEN TRUE ELSE e

\* ParserRead finds the end of the input and returns NULL (as it does on
\* every later call)
ParserReadEof ==
    /\ pc = "read"
    /\ UNCHANGED << closed, conf_vars, unit_vars >>
    /\ eof' = EofAfterRead(NULL, eof)
    /\ stop' = "eof"
    /\ parser_eof' = TRUE
    /\ pc' = "until"
    /\ last' = "eof"
    /\ UNCHANGED << max_parse_errors, parse_errors, parse_fp, tuple, ccxt, count,
                    parsing_field, err, proc, filter, former_isnull, fcinfo,
                    oldcontext, oldowner, subxact_depth, cur_ctx, cur_owner, log,
                    quota_logs, bad_records, opens, begins, releases, rollbacks,
                    invocations, shape_checks, f_entry, exit, done, late >>

\* ParserRead raises: before any field is parsed (parsing_field -1) or while
\* field pf is being converted, with any sqlerrcode
ParserReadRaise ==
    /\ pc = "read"
    /\ UNCHANGED << closed, conf_vars, unit_vars >>
    /\ ~parser_eof
    /\ count < MaxRecords
    /\ \E pf \in {-1} \cup (1..nfields), code \in ErrCodes :
        /\ parsing_field' = pf
        /\ err' = code
    /\ count' = count + 1
    /\ pc' = "catch"
    /\ last' = "parser_raise"
    /\ UNCHANGED << max_parse_errors, parse_errors, parse_fp, eof, tuple, ccxt,
                    parser_eof, proc, filter, former_isnull, fcinfo, oldcontext,
                    oldowner, subxact_depth, cur_ctx, cur_owner, log, quota_logs,
                    bad_records, opens, begins, releases, rollbacks, invocations,
                    shape_checks, f_entry, exit, done, stop, late >>

\* ParserRead converts every field of the next record (any of them may be
\* null); with a filter it goes on to FilterTuple, without one it returns
\* TupleFormerTuple
ParserReadRecord ==
    /\ pc = "read"
    /\ UNCHANGED << closed, conf_vars, unit_vars >>
    /\ ~parser_eof
    /\ count < MaxRecords
    /\ count' = count + 1
    /\ \E nulls \in [1..nfields -> BOOLEAN] :
        former_isnull' = [i \in 1..Len(former_isnull) |->
                            IF i <= nfields THEN nulls[i] ELSE former_isnull[i]]
    /\ IF filter.funcstr
       THEN /\ pc' = "filter"
            /\ UNCHANGED tuple
       ELSE /\ pc' = "until"
            /\ tuple' = TupleFormerTuple(former_isnull')
    /\ last' = "parsed"
    /\ UNCHANGED << max_parse_errors, parse_errors, parse_fp, eof, ccxt,
                    parsing_field, parser_eof, err, proc, filter, fcinfo, oldcontext,
                    oldowner, subxact_depth, cur_ctx, cur_owner, log, quota_logs,
                    bad_records, opens, begins, releases, rollbacks, invocations,
                    shape_checks, f_entry, exit, done, stop, late >>

(* ------------------------------------------------------------------ *)
(* FilterTuple                                                         *)
(* ------------------------------------------------------------------ *)

\* a strict test that looks at the first argument only
StrictShortCircuit_FirstArg(f, isnull) ==
    f.fn_strict /\ isnull[1]

\* the strict test at the head of FilterTuple
StrictShortCircuit(f, isnull) ==
    f.fn_strict /\ \E i \in 1..f.nargs : isnull[i]

\* BeginInternalSubTransaction: one level deeper, in the sub-transaction's
\* memory context and resource owner
BeginInternalSubTransaction(x) ==
    [depth |-> x.depth + 1, ctx |-> "subxact_ctx", owner |-> "subxact_owner"]

\* ReleaseCurrentSubTransaction and RollbackAndReleaseCurrentSubTransaction:
\* back one level, in the parent transaction's memory context and owner
EndSubTransaction(x) ==
    [depth |-> x.depth - 1, ctx |-> "xact_ctx", owner |-> "xact_owner"]

xact == [depth |-> subxact_depth, ctx |-> cur_ctx, owner |-> cur_owner]

\* a PG_CATCH block that restores context and owner but leaves the
\* sub-transaction open
FilterCatchXact_NoRollback(x, octx, oowner) ==
    [x EXCEPT !.ctx = octx, !.owner = oowner]

\* what the PG_CATCH block of FilterTuple leaves: the sub-transaction
\* rolled back, the entry's memory context and resource owner restored
FilterCatchXact(x, octx, oowner) ==
    [EndSubTransaction(x) EXCEPT !.ctx = octx, !.owner = oowner]

\* what FilterTuple leaves after the function returned: the sub-transaction
\* released, the entry's memory context and resource owner restored
FilterReleaseXact(x, octx, oowner) ==
    [EndSubTransaction(x) EXCEPT !.ctx = octx, !.owner = oowner]

\* a FilterTuple that leaves parsing_field as ReaderNext set it
ParsingFieldAtInvoke_Kept(pf) == pf

\* "*parsing_field = 0" before the function is called
ParsingFieldAtInvoke(pf) == 0

\* FilterTuple up to the function call: the strict short-circuit, or the
\* sub-transaction begun and parsing_field set to 0
FilterEnter ==
    /\ pc = "filter"
    /\ UNCHANGED << closed, conf_vars, unit_vars >>
    /\ f_entry' = [xact |-> xact, isnull |-> former_isnull,
                    invocations |-> invocations, begins |-> begins]
    /\ IF StrictShortCircuit(filter, former_isnull)
       THEN /\ former_isnull' = NullTupleIsnull(former_isnull)
            /\ tuple' = TupleFormerNullTuple(former_isnull)
            /\ pc' = "until"
            /\ last' = "strict_skip"
            /\ UNCHANGED << oldcontext, oldowner, subxact_depth, cur_ctx, cur_owner,
                            begins, parsing_field, fcinfo >>
       ELSE LET b == BeginInternalSubTransaction(xact) IN
            /\ oldcontext' = cur_ctx
            /\ oldowner' = cur_owner
            /\ subxact_depth' = b.depth
            /\ cur_ctx' = cur_ctx
            /\ cur_owner' = b.owner
            /\ begins' = begins + 1
            /\ parsing_field' = ParsingFieldAtInvoke(parsing_field)
            /\ fcinfo' = NoCall
            /\ pc' = "f_invoke"
            /\ last' = "begin"
            /\ UNCHANGED << former_isnull, tuple >>
    /\ UNCHANGED << max_parse_errors, parse_errors, parse_fp, eof, ccxt, count,
                    parser_eof, err, proc, filter, log, quota_logs, bad_records,
                    opens, releases, rollbacks, invocations, shape_checks, exit,
                    done, stop, late >>

\* the datums the function may return: of its declared composite type, or,
\* declared RECORD without OUT parameters, a record of any registered shape
Datums(p) ==
    IF p.prorettype = "record"
    THEN IF p.outdesc # "none"
         THEN { [isnull |-> FALSE, typeid |-> "record", typmod |-> p.outdesc] }
         ELSE { [isnull |-> FALSE, typeid |-> "record", typmod |-> m] : m \in {"ok", "bad"} }
    ELSE { [isnull |-> FALSE, typeid |-> p.prorettype, typmod |-> "none"] }

\* FunctionCallInvoke: the function returns a datum, returns SQL null, or
\* raises (leaving whatever memory context it was in)
FilterInvoke ==
    /\ pc = "f_invoke"
    /\ UNCHANGED << closed, conf_vars, unit_vars >>
    /\ invocations' = invocations + 1
    /\ \/ \E code \in ErrCodes :
            /\ err' = code
            /\ cur_ctx' = "func_ctx"
            /\ pc' = "f_catch"
            /\ last' = "func_raise"
            /\ UNCHANGED fcinfo
       \/ \E d \in Datums(proc) \cup {[NoCall EXCEPT !.isnull = TRUE]} :
            /\ fcinfo' = d
            /\ pc' = "f_ret"
            /\ last' = "func_return"
            /\ UNCHANGED << err, cur_ctx >>
    /\ UNCHANGED << max_parse_errors, parse_errors, parse_fp, eof, tuple, ccxt, count,
                    parsing_field, parser_eof, proc, filter, former_isnull,
                    oldcontext, oldowner, subxact_depth, cur_owner, log, quota_logs,
                    bad_records, opens, begins, releases, rollbacks, shape_checks,
                    f_entry, exit, done, stop, late >>

\* the PG_CATCH block of FilterTuple
FilterCatch ==
    /\ pc = "f_catch"
    /\ UNCHANGED << closed, conf_vars, unit_vars >>
    /\ LET x == FilterCatchXact(xact, oldcontext, oldowner) IN
        /\ subxact_depth' = x.depth
        /\ cur_ctx' = x.ctx
        /\ cur_owner' = x.owner
    /\ rollbacks' = rollbacks + 1
    /\ pc' = "catch"
    /\ last' = "func_rollback"
    /\ UNCHANGED << max_parse_errors, parse_errors, parse_fp, eof, tuple, ccxt, count,
                    parsing_field, parser_eof, err, proc, filter, former_isnull,
                    fcinfo, oldcontext, oldowner, log, quota_logs, bad_records,
                    opens, begins, releases, invocations, shape_checks, f_entry,
                    exit, done, stop, late >>

\* a check that is never cached
CacheMatched_Never(typeid) == FALSE

\* whether a result that passed tupledesc_match is cached as matched
CacheMatched(typeid) == typeid # "record"

\* the tuple made of the function's datum: a row of the datum's type, its
\* columns not null
DatumTuple(d) == [i \in 1..natts(lookup_rowtype_tupdesc(d.typeid, d.typmod)) |-> FALSE]

\* a test that takes no result for SQL null
ResultIsNull_Never(fc) == FALSE

\* "if (fcinfo.isnull)" after the sub-transaction is released
ResultIsNull(fc) == fc.isnull

\* a FilterTuple that leaves parsing_field as the call had it
ParsingFieldAfterInvoke_Kept(pf) == pf

\* "*parsing_field = -1" after FunctionCallInvoke returned
ParsingFieldAfterInvoke(pf) == -1

\* FilterTuple after the function returned: parsing_field back to -1, the
\* sub-transaction released, then the all-null tuple for a null result, or
\* the shape check (unless cached) and the function's tuple
FilterReturn ==
    /\ pc = "f_ret"
    /\ UNCHANGED << closed, conf_vars, unit_vars >>
    /\ parsing_field' = ParsingFieldAfterInvoke(parsing_field)
    /\ LET x == FilterReleaseXact(xact, oldcontext, oldowner) IN
        /\ subxact_depth' = x.depth
        /\ cur_ctx' = x.ctx
        /\ cur_owner' = x.owner
    /\ releases' = releases + 1
    /\ IF ResultIsNull(fcinfo)
       THEN /\ former_isnull' = NullTupleIsnull(former_isnull)
            /\ tuple' = TupleFormerNullTuple(former_isnull)
            /\ pc' = "until"
            /\ last' = "null_result"
            /\ UNCHANGED << filter, shape_checks, err >>
       ELSE IF ~filter.tupledesc_matched
       THEN /\ shape_checks' = shape_checks + 1
            /\ IF tupledesc_match(TargetDesc,
                                  lookup_rowtype_tupdesc(fcinfo.typeid, fcinfo.typmod))
               THEN /\ filter' = [filter EXCEPT !.tupledesc_matched =
                                        CacheMatched(fcinfo.typeid)]
                    /\ tuple' = DatumTuple(fcinfo)
                    /\ pc' = "until"
                    /\ last' = "checked_result"
                    /\ UNCHANGED err
               ELSE /\ err' = "DATATYPE_MISMATCH"
                    /\ pc' = "catch"
                    /\ last' = "mismatch"
                    /\ UNCHANGED << filter, tuple >>
            /\ UNCHANGED former_isnull
       ELSE /\ tuple' = DatumTuple(fcinfo)
            /\ pc' = "until"
            /\ last' = "result"
            /\ UNCHANGED << filter, shape_checks, err, former_isnull >>
    /\ UNCHANGED << max_parse_errors, parse_errors, parse_fp, eof, ccxt, count,
                    parser_eof, proc, fcinfo, oldcontext, oldowner, log, quota_logs,
                    bad_records, opens, begins, rollbacks, invocations, f_entry,
                    exit, done, stop, late >>

(* ------------------------------------------------------------------ *)
(* ReaderNext: the PG_CATCH block and the loop condition               *)
(* ------------------------------------------------------------------ *)

\* a handler that forgets the administrator's shutdown
ReThrown_CancelOnly(pf, code) ==
    pf < 0 \/ code = "QUERY_CANCELED"

\* the errors ReaderNext re-throws: raised while no field was being parsed,
\* or a query cancel or an administrator's shutdown
ReThrown(pf, code) ==
    pf < 0 \/ code \in {"ADMIN_SHUTDOWN", "QUERY_CANCELED"}

\* a loop that no number of errors stops
QuotaExceeded_Never(errors, quota) == FALSE

\* a quota comparison off by one: the load stops at the N-th error
QuotaExceeded_AtQuota(errors, quota) == errors >= quota

\* "Terminate if PARSE_ERRORS has been reached"
QuotaExceeded(errors, quota) == errors > quota

\* the "Parse error Record" line: the error's ordinal, the input record and,
\* for parsing_field > 0 only, the column (0: no column is printed)
ParseErrorLine(errors, record, pf) ==
    [n |-> errors, rec |-> record, col |-> IF pf > 0 THEN pf ELSE 0]

\* "Absorb parse errors": the counter and the log line
AbsorbParseError ==
    /\ parse_errors' = parse_errors + 1
    /\ log' = Append(log, ParseErrorLine(parse_errors', count, parsing_field))

\* "Terminate if PARSE_ERRORS has been reached"
CheckQuota ==
    IF QuotaExceeded(parse_errors', max_parse_errors)
    THEN /\ eof' = TRUE
         /\ stop' = "quota"
         /\ quota_logs' = quota_logs + 1
    ELSE UNCHANGED << eof, stop, quota_logs >>

\* a handler that does not dump the record of the error that exceeds the quota
DumpBadRecord_NotOverQuota ==
    \/ /\ parse_fp' = (parse_fp \/ ~eof')
       /\ opens' = IF parse_fp \/ eof' THEN opens ELSE opens + 1
       /\ bad_records' = IF eof' THEN bad_records ELSE Append(bad_records, count)
       /\ err' = "none"
       /\ pc' = "until"
       /\ last' = "absorbed"
       /\ UNCHANGED exit
    \/ /\ ~parse_fp /\ ~eof'
       /\ err' = "FILE_ACCESS"
       /\ pc' = "raised"
       /\ exit' = "raise"
       /\ last' = "open_failed"
       /\ UNCHANGED << parse_fp, opens, bad_records >>

\* "output parse bad file": the file is opened unless it is open, and the
\* record dumped; when AllocateFile fails the file-access error is raised
\* out of the PG_CATCH block
DumpBadRecord ==
    \/ /\ parse_fp' = TRUE
       /\ opens' = IF parse_fp THEN opens ELSE opens + 1
       /\ bad_records' = Append(bad_records, count)
       /\ err' = "none"
       /\ pc' = "until"
       /\ last' = "absorbed"
       /\ UNCHANGED exit
    \/ /\ ~parse_fp
       /\ err' = "FILE_ACCESS"
       /\ pc' = "raised"
       /\ exit' = "raise"
       /\ last' = "open_failed"
       /\ UNCHANGED << parse_fp, opens, bad_records >>

\* the PG_CATCH block of ReaderNext
ReaderCatch ==
    /\ pc = "catch"
    /\ UNCHANGED << closed, conf_vars, unit_vars >>
    /\ IF ReThrown(parsing_field, err)
       THEN /\ pc' = "raised"
            /\ exit' = "raise"
            /\ last' = "rethrow"
            /\ UNCHANGED << parse_errors, log, eof, stop, quota_logs, parse_fp, opens,
                            bad_records, err, cur_ctx >>
       ELSE /\ cur_ctx' = ccxt
            /\ AbsorbParseError
            /\ CheckQuota
            /\ DumpBadRecord
    /\ UNCHANGED << max_parse_errors, tuple, ccxt, count, parsing_field, parser_eof,
                    proc, filter, former_isnull, fcinfo, oldcontext, oldowner,
                    subxact_depth, cur_owner, begins, releases, rollbacks,
                    invocations, shape_checks, f_entry, done, late >>

\* while (!eof && !tuple): the next pass starts at the top of the loop
LoopAgain ==
    /\ pc = "until"
    /\ UNCHANGED << closed, conf_vars, unit_vars >>
    /\ ~eof /\ tuple = NULL
    /\ tuple' = NULL
    /\ parsing_field' = -1
    /\ pc' = "read"
    /\ last' = "again"
    /\ UNCHANGED << max_parse_errors, parse_errors, parse_fp, eof, ccxt, count,
                    parser_eof, err, proc, filter, former_isnull, fcinfo, oldcontext,
                    oldowner, subxact_depth, cur_ctx, cur_owner, log, quota_logs,
                    bad_records, opens, begins, releases, rollbacks, invocations,
                    shape_checks, f_entry, exit, done, stop, late >>

\* the loop ends: ReaderNext returns the tuple, or NULL
ReaderNextReturn ==
    /\ pc = "until"
    /\ UNCHANGED << closed, conf_vars, unit_vars >>
    /\ ~(~eof /\ tuple = NULL)
    /\ pc' = "idle"
    /\ exit' = IF tuple = NULL THEN "norow" ELSE "row"
    /\ done' = IF tuple = NULL /\ done = "no" THEN stop ELSE done
    /\ last' = "return"
    /\ UNCHANGED << max_parse_errors, parse_errors, parse_fp, eof, tuple, ccxt, count,
                    parsing_field, parser_eof, err, proc, filter, former_isnull,
                    fcinfo, oldcontext, oldowner, subxact_depth, cur_ctx, cur_owner,
                    log, quota_logs, bad_records, opens, begins, releases, rollbacks,
                    invocations, shape_checks, f_entry, stop, late >>

(* ================================================================== *)
(* ReaderCreate and ParseControlFile                                   *)
(* ================================================================== *)

\* lines (of the control file and of the options together) handed to
\* ParseControlFileLine at most
MaxLines == 5

InvalidOid == 0

\* a char * that is NULL; a string is the sequence of its characters, so the
\* empty string is << >> and differs from it
NullStr == << "(null)" >>

\* a one-word value
Word(s) == << s >>

\* rd->parser == NULL
NullParser == [type |-> "NULL", params |-> {}]

\* the Reader after palloc0 and the three assignments of ReaderCreate
NewReader ==
    [relid |-> InvalidOid, infile |-> NullStr, logfile |-> NullStr,
     parse_badfile |-> NullStr, dup_badfile |-> NullStr, parser |-> NullParser,
     writer |-> "NULL", max_parse_errors |-> -2, max_dup_errors |-> -2,
     limit |-> INT64_MAX, on_duplicate |-> "ERROR", verbose |-> FALSE]

\* file names the directives use: "/a.c", "/b" and "/d.x/e"
PathA == << "/", "a", ".", "c" >>
PathB == << "/", "b" >>
PathD == << "/", "d", ".", "x", "/", "e" >>

\* strrchr: the place of the last c in s, 0 for NULL
strrchr(s, c) ==
    IF \E i \in 1..Len(s) : s[i] = c
    THEN CHOOSE i \in 1..Len(s) : s[i] = c /\ \A j \in (i + 1)..Len(s) : s[j] # c
    ELSE 0

\* the extension the default parse bad file takes from the input file's name
Extension(infile) ==
    LET filename == strrchr(infile, "/")
        extension == strrchr(infile, ".")
    IN  IF filename # 0 /\ extension # 0 /\ filename < extension
        THEN SubSeq(infile, extension + 1, Len(infile))
        ELSE << >>

\* the one table of the database, and its names
TargetRelid == 16384
get_rel_name(relid) == IF relid = TargetRelid THEN "t" ELSE "?"

\* RangeVarGetRelid(..., false): the table's oid; InvalidOid stands for the
\* ERROR it raises when no such table exists
RangeVarGetRelid(target) == IF target = Word("t") THEN TargetRelid ELSE InvalidOid

\* the time_t handed to ReaderCreate, as strftime prints it
TimeStamp == "20100101000000_"

\* path of the defaults: BULKLOAD_LSF_DIR "/", the time stamp, the table's
\* qualified name and ".", made absolute
DefaultPath(relid, suffix) ==
    << "$PGDATA/", "pg_bulkload/", TimeStamp, "db_", "public_", get_rel_name(relid), "." >>
        \o suffix

DefaultLog(r) == DefaultPath(r.relid, << "l", "o", "g" >>)
DefaultParseBad(r) == DefaultPath(r.relid, << "p", "r", "s", "." >> \o Extension(r.infile))
DefaultDupBad(r) == DefaultPath(r.relid, << "d", "u", "p", ".", "c", "s", "v" >>)

\* the words the model writes in lower case, in upper case
ToUpper(s) ==
    CASE s = "infile" -> "INFILE"
      [] s = "csv" -> "CSV"
      [] OTHER -> s

\* pg_strcasecmp(a, b) == 0
pg_strcasecmp(a, b) == ToUpper(a) = ToUpper(b)

\* choice: the place of key in keys (from 1), 0 for the ERROR "invalid ..."
choice(key, keys) ==
    IF \E i \in 1..Len(keys) : pg_strcasecmp(key, keys[i])
    THEN CHOOSE i \in 1..Len(keys) :
            /\ pg_strcasecmp(key, keys[i])
            /\ \A j \in 1..(i - 1) : ~pg_strcasecmp(key, keys[j])
    ELSE 0

TypeKeys == << "BINARY", "FIXED", "CSV", "TUPLE", "FUNCTION" >>
TypeValues == << "BinaryParser", "BinaryParser", "CSVParser", "TupleParser", "FunctionParser" >>
WriterKeys == << "DIRECT", "BUFFERED", "PARALLEL" >>
WriterValues == << "DirectWriter", "BufferedWriter", "ParallelWriter" >>
ON_DUPLICATE_NAMES == << "ERROR", "REMOVE_NEW", "REMOVE_OLD" >>

\* the integers the directives write
Int64Text ==
    [text \in {"-2", "-1", "0", "1", "9223372036854775807"} |->
        CASE text = "-2" -> -2
          [] text = "-1" -> -1
          [] text = "0" -> 0
          [] text = "1" -> 1
          [] text = "9223372036854775807" -> INT64_MAX]

\* ParseInt64: the value, INT64_MAX for INFINITE; ok is FALSE for the ERROR
\* raised on a value that is no integer or lies below minValue
ParseInt64(value, minValue) ==
    IF pg_strcasecmp(value, "INFINITE") THEN [ok |-> TRUE, v |-> INT64_MAX]
    ELSE IF value \notin DOMAIN Int64Text THEN [ok |-> FALSE, v |-> 0]
    ELSE IF Int64Text[value] < minValue THEN [ok |-> FALSE, v |-> 0]
    ELSE [ok |-> TRUE, v |-> Int64Text[value]]

\* ParseBoolean: ok is FALSE for the ERROR raised on a value that is no boolean
ParseBoolean(value, defaultValue) ==
    IF value \in {"YES", "TRUE", "ON", "1"} THEN [ok |-> TRUE, v |-> TRUE]
    ELSE IF value \in {"NO", "FALSE", "OFF", "0"} THEN [ok |-> TRUE, v |-> FALSE]
    ELSE [ok |-> FALSE, v |-> defaultValue]

\* ParserParam: whether the parser takes the keyword as one of its own
ParserParam(parser, keyword) ==
    \/ keyword \in {"SKIP", "FILTER"}
    \/ parser.type = "CSVParser" /\ keyword \in {"DELIMITER", "QUOTE"}
    \/ parser.type = "BinaryParser" /\ keyword \in {"COL", "STRIDE"}

\* ASSERT_ONCE(expr): passes when expr holds, raises "duplicate ... specified"
\* when it does not
ASSERT_ONCE(expr) == expr

(* ------------------------------------------------------------------ *)
(* ParseControlFileLine                                                *)
(* ------------------------------------------------------------------ *)

Raise(r, msg) == [rd |-> r, err |-> msg]
Return(r) == [rd |-> r, err |-> "none"]

\* a resolver that keeps a keyword it does not know when no parser is there
\* yet
InvalidKeyword_Deferred(r, keyword) ==
    r.parser # NullParser /\ ~ParserParam(r.parser, ToUpper(keyword))

\* a resolver that lets every keyword pass once a parser is there
InvalidKeyword_NoParserOnly(r, keyword) == r.parser = NullParser

\* the last test of ParseControlFileLine: no parser yet, or the parser does
\* not take the keyword
InvalidKeyword(r, keyword) ==
    r.parser = NullParser \/ ~ParserParam(r.parser, ToUpper(keyword))

\* ParseControlFileLine on a line that is a directive: keyword and target
\* are the two sides of its '=', trimmed and unquoted
ApplyDirective(r, keyword, target) ==
    IF pg_strcasecmp(keyword, "TABLE")
    THEN IF ~ASSERT_ONCE(r.relid = InvalidOid) THEN Raise(r, "duplicate")
         ELSE IF RangeVarGetRelid(target) = InvalidOid
              THEN Raise(r, "relation does not exist")
              ELSE Return([r EXCEPT !.relid = RangeVarGetRelid(target)])
    ELSE IF pg_strcasecmp(keyword, "INFILE")
    THEN IF ~ASSERT_ONCE(r.infile = NullStr) THEN Raise(r, "duplicate")
         ELSE Return([r EXCEPT !.infile = target])
    ELSE IF pg_strcasecmp(keyword, "LOGFILE")
    THEN IF ~ASSERT_ONCE(r.logfile = NullStr) THEN Raise(r, "duplicate")
         ELSE Return([r EXCEPT !.logfile = target])
    ELSE IF pg_strcasecmp(keyword, "PARSE_BADFILE")
    THEN IF ~ASSERT_ONCE(r.parse_badfile = NullStr) THEN Raise(r, "duplicate")
         ELSE Return([r EXCEPT !.parse_badfile = target])
    ELSE IF pg_strcasecmp(keyword, "DUPLICATE_BADFILE")
    THEN IF ~ASSERT_ONCE(r.dup_badfile = NullStr) THEN Raise(r, "duplicate")
         ELSE Return([r EXCEPT !.dup_badfile = target])
    ELSE IF pg_strcasecmp(keyword, "TYPE")
    THEN IF ~ASSERT_ONCE(r.parser = NullParser) THEN Raise(r, "duplicate")
         ELSE IF choice(target[1], TypeKeys) = 0 THEN Raise(r, "invalid value")
         ELSE Return([r EXCEPT !.parser = [type |-> TypeValues[choice(target[1], TypeKeys)],
                                           params |-> {}]])
    ELSE IF pg_strcasecmp(keyword, "WRITER") \/ pg_strcasecmp(keyword, "LOADER")
    THEN IF ~ASSERT_ONCE(r.writer = "NULL") THEN Raise(r, "duplicate")
         ELSE IF choice(target[1], WriterKeys) = 0 THEN Raise(r, "invalid value")
         ELSE Return([r EXCEPT !.writer = WriterValues[choice(target[1], WriterKeys)]])
    ELSE IF pg_strcasecmp(keyword, "PARSE_ERRORS") \/ pg_strcasecmp(keyword, "MAX_ERR_CNT")
    THEN IF ~ASSERT_ONCE(r.max_parse_errors < -1) THEN Raise(r, "duplicate")
         ELSE IF ~ParseInt64(target[1], -1).ok THEN Raise(r, "invalid value")
         ELSE Return([r EXCEPT !.max_parse_errors =
                        IF ParseInt64(target[1], -1).v = -1 THEN INT64_MAX
                        ELSE ParseInt64(target[1], -1).v])
    ELSE IF pg_strcasecmp(keyword, "DUPLICATE_ERRORS")
    THEN IF ~ASSERT_ONCE(r.max_dup_errors < -1) THEN Raise(r, "duplicate")
         ELSE IF ~ParseInt64(target[1], -1).ok THEN Raise(r, "invalid value")
         ELSE Return([r EXCEPT !.max_dup_errors =
                        IF ParseInt64(target[1], -1).v = -1 THEN INT64_MAX
                        ELSE ParseInt64(target[1], -1).v])
    ELSE IF pg_strcasecmp(keyword, "LOAD") \/ pg_strcasecmp(keyword, "LIMIT")
    THEN IF ~ASSERT_ONCE(r.limit = INT64_MAX) THEN Raise(r, "duplicate")
         ELSE IF ~ParseInt64(target[1], 0).ok THEN Raise(r, "invalid value")
         ELSE Return([r EXCEPT !.limit = ParseInt64(target[1], 0).v])
    ELSE IF pg_strcasecmp(keyword, "ON_DUPLICATE")
    THEN IF choice(target[1], ON_DUPLICATE_NAMES) = 0 THEN Raise(r, "invalid value")
         ELSE Return([r EXCEPT !.on_duplicate =
                        ON_DUPLICATE_NAMES[choice(target[1], ON_DUPLICATE_NAMES)]])
    ELSE IF pg_strcasecmp(keyword, "VERBOSE")
    THEN IF ~ParseBoolean(target[1], FALSE).ok THEN Raise(r, "invalid value")
         ELSE Return([r EXCEPT !.verbose = ParseBoolean(target[1], FALSE).v])
    ELSE IF InvalidKeyword(r, keyword)
    THEN Raise(r, "invalid keyword")
    ELSE Return([r EXCEPT !.parser.params = @ \cup {ToUpper(keyword)}])

\* a line by what ParseControlFileLine finds in it: no newline at its end, a
\* quote left open, nothing but spaces and a comment, no '=', or a directive
ParseControlFileLine(r, l) ==
    IF l.kind = "too_long" THEN Raise(r, "too long line")
    ELSE IF l.kind = "empty" THEN Return(r)
    ELSE IF l.kind = "no_equals" THEN Raise(r, "invalid input")
    ELSE IF l.kind = "unterminated" THEN Raise(r, "unterminated quoted field")
    ELSE ApplyDirective(r, l.keyword, l.value)

Directive(k, v) == [kind |-> "directive", keyword |-> k, value |-> v]
Other(kind) == [kind |-> kind, keyword |-> "", value |-> << >>]

\* the lines the control file and the options are made of
Lines ==
    { Directive("TABLE", Word("t")), Directive("TABLE", Word("nosuch")),
      Directive("INFILE", PathA), Directive("infile", PathB), Directive("INFILE", PathD),
      Directive("LOGFILE", PathA), Directive("LOGFILE", PathB),
      Directive("PARSE_BADFILE", PathB),
      Directive("PARSE_BADFILE", DefaultDupBad([relid |-> TargetRelid])),
      Directive("DUPLICATE_BADFILE", PathB), Directive("DUPLICATE_BADFILE", PathD),
      Directive("TYPE", Word("csv")), Directive("TYPE", Word("FIXED")),
      Directive("TYPE", Word("XML")),
      Directive("WRITER", Word("BUFFERED")), Directive("LOADER", Word("DIRECT")),
      Directive("PARSE_ERRORS", Word("-1")), Directive("MAX_ERR_CNT", Word("1")),
      Directive("PARSE_ERRORS", Word("-2")),
      Directive("DUPLICATE_ERRORS", Word("INFINITE")),
      Directive("LIMIT", Word("0")), Directive("LOAD", Word("9223372036854775807")),
      Directive("ON_DUPLICATE", Word("ERROR")), Directive("ON_DUPLICATE", Word("REMOVE_NEW")),
      Directive("VERBOSE", Word("YES")), Directive("VERBOSE", Word("NO")),
      Directive("DELIMITER", Word(",")), Directive("BOGUS", Word("x")),
      Other("empty"), Other("no_equals"), Other("too_long"), Other("unterminated") }

\* the keyword an alias stands for
Keyword(keyword) ==
    CASE ToUpper(keyword) = "LOADER" -> "WRITER"
      [] ToUpper(keyword) = "MAX_ERR_CNT" -> "PARSE_ERRORS"
      [] ToUpper(keyword) = "LIMIT" -> "LOAD"
      [] OTHER -> ToUpper(keyword)

SingleValued ==
    { "TABLE", "INFILE", "LOGFILE", "PARSE_BADFILE", "DUPLICATE_BADFILE", "TYPE",
      "WRITER", "PARSE_ERRORS", "DUPLICATE_ERRORS", "LOAD", "ON_DUPLICATE", "VERBOSE" }

(* ------------------------------------------------------------------ *)
(* ParseControlFile and ReaderCreate                                   *)
(* ------------------------------------------------------------------ *)

InitConfig ==
    /\ rd = NewReader
    /\ conf_pc = "start"
    /\ conf_err = "none"
    /\ nlines = 0
    /\ offered = "none"
    /\ parser_inits = 0
    /\ applied = {}
    /\ twice = {}

\* an ERROR that is reported and lets ReaderCreate go on
Failed_GoesOn(msg) ==
    /\ conf_err' = msg
    /\ UNCHANGED << conf_pc, rd, applied, twice >>

\* an ERROR leaves ReaderCreate: no Reader is returned, the one being built
\* is lost
Failed(msg) ==
    /\ conf_pc' = "failed"
    /\ conf_err' = msg
    /\ rd' = NewReader
    /\ applied' = {}
    /\ twice' = {}

\* the control file: none is named, its name is relative, it cannot be
\* opened, or it is opened
OpenControlFileAs(fname) ==
    CASE fname = "none" ->
            conf_pc' = "options" /\ UNCHANGED << rd, conf_err, applied, twice >>
      [] fname = "readable" ->
            conf_pc' = "file" /\ UNCHANGED << rd, conf_err, applied, twice >>
      [] fname = "relative" -> Failed("control file name must be absolute path")
      [] fname = "unreadable" -> Failed("could not open")

OpenControlFile ==
    /\ conf_pc = "start"
    /\ UNCHANGED << load_vars, unit_vars >>
    /\ \E fname \in {"none", "relative", "unreadable", "readable"} :
        OpenControlFileAs(fname)
    /\ UNCHANGED << nlines, offered, parser_inits >>

\* one call of ParseControlFileLine, from either loop of ParseControlFile
ReadLine(l) ==
    LET res == ParseControlFileLine(rd, l)
        key == Keyword(l.keyword)
        set == IF l.kind = "directive" /\ key \in SingleValued THEN {key} ELSE {}
    IN  /\ nlines < MaxLines
        /\ nlines' = nlines + 1
        /\ offered' = IF l.kind = "directive" /\ key \notin SingleValued
                       THEN l.keyword ELSE "none"
        /\ UNCHANGED parser_inits
        /\ IF res.err = "none"
           THEN /\ rd' = res.rd
                /\ applied' = applied \cup set
                /\ twice' = twice \cup (set \cap applied)
                /\ UNCHANGED << conf_pc, conf_err >>
           ELSE Failed(res.err)

\* fgets read a line of the control file
ControlFileLine ==
    /\ conf_pc = "file"
    /\ UNCHANGED << load_vars, unit_vars >>
    /\ \E l \in Lines : ReadLine(l)

\* fgets returned NULL: the control file is closed
ControlFileEnd ==
    /\ conf_pc = "file"
    /\ UNCHANGED << load_vars, unit_vars >>
    /\ conf_pc' = "options"
    /\ UNCHANGED << rd, conf_err, nlines, offered, parser_inits, applied, twice >>

\* the options hold one more newline-ended segment
OptionsLine ==
    /\ conf_pc = "options"
    /\ UNCHANGED << load_vars, unit_vars >>
    /\ \E l \in Lines : ReadLine(l)

\* the ERROR of the mandatory checks, "none" when they pass
MandatoryMissing_NoInfile(r) ==
    IF r.parser = NullParser THEN "no TYPE specified"
    ELSE IF r.relid = InvalidOid THEN "no TABLE specified"
    ELSE "none"

MandatoryMissing(r) ==
    IF r.parser = NullParser THEN "no TYPE specified"
    ELSE IF r.relid = InvalidOid THEN "no TABLE specified"
    ELSE IF r.infile = NullStr THEN "no INFILE specified"
    ELSE "none"

\* defaults that take an unlimited parse-error quota for an unset one
SetDefaults_UnlimitedUnset(r) ==
    [r EXCEPT !.logfile = IF @ = NullStr THEN DefaultLog(r) ELSE @,
              !.parse_badfile = IF @ = NullStr THEN DefaultParseBad(r) ELSE @,
              !.dup_badfile = IF @ = NullStr THEN DefaultDupBad(r) ELSE @,
              !.writer = IF @ = "NULL" THEN "DirectWriter" ELSE @,
              !.max_parse_errors = IF @ < -1 \/ @ = INT64_MAX THEN 50 ELSE @,
              !.max_dup_errors = IF @ < -1 THEN 50 ELSE @]

\* "Set defaults to unspecified parameters"; the names of the model are all
\* shorter than MAXPGPATH
SetDefaults(r) ==
    [r EXCEPT !.logfile = IF @ = NullStr THEN DefaultLog(r) ELSE @,
              !.parse_badfile = IF @ = NullStr THEN DefaultParseBad(r) ELSE @,
              !.dup_badfile = IF @ = NullStr THEN DefaultDupBad(r) ELSE @,
              !.writer = IF @ = "NULL" THEN "DirectWriter" ELSE @,
              !.max_parse_errors = IF @ < -1 THEN 50 ELSE @,
              !.max_dup_errors = IF @ < -1 THEN 50 ELSE @]

\* strcmp(a, b) == 0
strcmp(a, b) == a = b

SameFileName_BadFilesApart(r) ==
    \/ strcmp(r.infile, r.logfile)
    \/ strcmp(r.infile, r.parse_badfile)
    \/ strcmp(r.infile, r.dup_badfile)
    \/ strcmp(r.logfile, r.parse_badfile)
    \/ strcmp(r.logfile, r.dup_badfile)

\* "check it whether there is not the same file name"
SameFileName(r) ==
    \/ strcmp(r.infile, r.logfile)
    \/ strcmp(r.infile, r.parse_badfile)
    \/ strcmp(r.infile, r.dup_badfile)
    \/ strcmp(r.logfile, r.parse_badfile)
    \/ strcmp(r.logfile, r.dup_badfile)
    \/ strcmp(r.parse_badfile, r.dup_badfile)

\* ParseControlFile after its two loops: the mandatory checks, the defaults
\* and the check of the file names
ParseControlFileEnd ==
    /\ conf_pc = "options"
    /\ UNCHANGED << load_vars, unit_vars >>
    /\ IF MandatoryMissing(rd) # "none"
       THEN Failed(MandatoryMissing(rd))
       ELSE IF SameFileName(SetDefaults(rd))
       THEN Failed("cannot set the same file name")
       ELSE /\ rd' = SetDefaults(rd)
            /\ conf_pc' = "resolved"
            /\ UNCHANGED << conf_err, applied, twice >>
    /\ UNCHANGED << nlines, offered, parser_inits >>

\* ReaderCreate after ParseControlFile: ParserInit, which may raise (it opens
\* the input file), and the return of the Reader
ParserInit ==
    /\ conf_pc = "resolved"
    /\ UNCHANGED << load_vars, unit_vars >>
    /\ \E opened \in BOOLEAN :
        IF opened
        THEN conf_pc' = "created" /\ UNCHANGED << rd, conf_err, applied, twice >>
        ELSE Failed("could not open input file")
    /\ parser_inits' = parser_inits + 1
    /\ UNCHANGED << nlines, offered >>

(* ------------------------------------------------------------------ *)
(* The specifications                                                  *)
(* ------------------------------------------------------------------ *)

\* a Reader that ReaderCreate returns: TYPE, TABLE and INFILE applied, and
\* the defaults
CreatedReader ==
    SetDefaults(
        ApplyDirective(
            ApplyDirective(
                ApplyDirective(NewReader, "TYPE", Word("csv")).rd,
                "TABLE", Word("t")).rd,
            "INFILE", PathA).rd)

NoDesc == [tdtypeid |-> "none", attrs |-> << >>]

\* tupledesc_match is not running
MatchIdle ==
    /\ match_pc = "idle"
    /\ dst_tupdesc = NoDesc
    /\ src_tupdesc = NoDesc
    /\ match_i = 0
    /\ match_detail = "none"

\* a pointer to x; NULL is the pointer to nothing
Ptr(x) == << x >>

\* the encodings' numbers in pg_wchar.h
PG_SQL_ASCII == 0
PG_EUC_JP == 1
PG_UTF8 == 6

\* a Checker as its owner allocates it: zeroed, then the ENCODING and
\* CHECK_CONSTRAINTS options stored
NewChecker(encoding, check_constraints) ==
    [rel |-> NULL, encoding |-> encoding, db_encoding |-> 0,
     check_encoding |-> FALSE, check_constraints |-> check_constraints,
     has_constraints |-> FALSE, has_not_null |-> FALSE,
     resultRelInfo |-> NULL, estate |-> NULL, slot |-> NULL]

NoRelation == [attnotnull |-> << >>, constr |-> NULL]

NothingFreed == [rel |-> 0, slot |-> 0, estate |-> 0]

\* no Checker yet
CheckerIdle ==
    /\ chk_pc = "idle"
    /\ checker = NewChecker(-1, FALSE)
    /\ rel = NoRelation
    /\ freed = NothingFreed

\* a ReaderClose that calls FreeFile whenever it is not onError
ClosesParseFile_Unopened(onError, fp) == ~onError

\* '!onError' and 'rd->parse_fp != NULL'
ClosesParseFile(onError, fp) == ~onError /\ fp

\* ReaderClose, called between two calls of ReaderNext or after an ERROR; the
\* Reader is not used afterwards
ReaderClose ==
    /\ pc \in {"idle", "raised", "init_failed"}
    /\ ~closed.called
    /\ UNCHANGED << conf_vars, unit_vars >>
    /\ \E onError \in BOOLEAN :
        closed' = [called |-> TRUE, onError |-> onError, ParserTerm |-> 1,
                   FreeFile |-> IF ClosesParseFile(onError, parse_fp) THEN 1 ELSE 0,
                   pfree |-> IF onError THEN 0 ELSE 1]
    /\ UNCHANGED << pc, max_parse_errors, parse_errors, parse_fp, eof, tuple, ccxt,
                    count, parsing_field, parser_eof, err, proc, filter, former_isnull,
                    fcinfo, oldcontext, oldowner, subxact_depth, cur_ctx, cur_owner,
                    log, quota_logs, bad_records, opens, begins, releases, rollbacks,
                    invocations, shape_checks, f_entry, last, exit, done, stop, late >>

NoScript == [fname |-> "none", file |-> << >>, options |-> << >>]

NoResult == [conf_pc |-> "none", conf_err |-> "none", rd |-> NewReader]

NoTail == [payload |-> Other("empty"), len |-> 0]

NoText == [fname |-> FALSE, file |-> << >>, options |-> << >>, tail |-> NoTail]

\* nothing written to the line buffer
NoBuf == [top |-> -1, overrun |-> FALSE, crashed |-> FALSE]

\* the bytes of the input are not looked at
LinesIdle ==
    /\ input = NoText
    /\ buf = NoBuf

\* no TupleFormer yet
NoFormer ==
    [desc |-> NoDesc, values |-> << >>, isnull |-> << >>, attnum |-> << >>,
     typed |-> {}, maxfields |-> 0, minfields |-> 0, overrun |-> FALSE]

NoFormerArgs ==
    [filter |-> [funcstr |-> FALSE, nargs |-> 0, fn_ndargs |-> 0], desc |-> NoDesc]

\* TupleFormerInit is not running
FormerIdle ==
    /\ fm_pc = "idle"
    /\ fm_args = NoFormerArgs
    /\ former = NoFormer
    /\ fm_i = 0

\* one call of ReaderCreate, no second one
AgainIdle ==
    /\ script = NoScript
    /\ run = 1
    /\ first = NoResult

\* the load starts on a Reader that ReaderCreate returned, its quota set by
\* a PARSE_ERRORS directive
Init ==
    /\ AgainIdle
    /\ LinesIdle
    /\ FormerIdle
    /\ MatchIdle
    /\ CheckerIdle
    /\ InitLoad
    /\ rd = [CreatedReader EXCEPT !.max_parse_errors = max_parse_errors]
    /\ conf_pc = "created"
    /\ conf_err = "none"
    /\ nlines = 4
    /\ offered = "none"
    /\ parser_inits = 1
    /\ applied = {"TYPE", "TABLE", "INFILE", "PARSE_ERRORS"}
    /\ twice = {}

Next ==
    \/ FilterInit
    \/ ReaderNextEnter
    \/ ParserReadEof
    \/ ParserReadRaise
    \/ ParserReadRecord
    \/ FilterEnter
    \/ FilterInvoke
    \/ FilterCatch
    \/ FilterReturn
    \/ ReaderCatch
    \/ LoopAgain
    \/ ReaderNextReturn
    \/ ReaderClose

Spec == Init /\ [][Next]_vars

\* ReaderCreate alone: the load has not begun
InitReaderCreate ==
    /\ AgainIdle
    /\ LinesIdle
    /\ FormerIdle
    /\ MatchIdle
    /\ CheckerIdle
    /\ InitConfig
    /\ max_parse_errors = rd.max_parse_errors
    /\ proc = NoProc
    /\ LoadStart

NextConfig ==
    \/ OpenControlFile
    \/ ControlFileLine
    \/ ControlFileEnd
    \/ OptionsLine
    \/ ParseControlFileEnd
    \/ ParserInit

SpecConfig == InitReaderCreate /\ [][NextConfig]_vars

(* ------------------------------------------------------------------ *)
(* tupledesc_match, statement by statement                             *)
(* ------------------------------------------------------------------ *)

\* attributes per descriptor
MaxAtts == 2

\* a dropped column: its type id is cleared, length and alignment stay
DroppedAttr(len, align) == Attr("0", TRUE, len, align)

\* int4, text, polygon (variable length as text, aligned as a double) and
\* what is left of each once dropped
Attrs ==
    { Attr("int4", FALSE, 4, "i"), Attr("text", FALSE, -1, "i"),
      Attr("polygon", FALSE, -1, "d"),
      DroppedAttr(4, "i"), DroppedAttr(-1, "i"), DroppedAttr(-1, "d") }

TupleDescs(typeid) ==
    { [tdtypeid |-> typeid, attrs |-> a] :
        a \in UNION { [1..n -> Attrs] : n \in 0..MaxAtts } }

\* a storage test that looks at the length only
SameStorage_LengthOnly(dattr, sattr) == dattr.attlen = sattr.attlen

\* the negation of 'dattr->attlen != sattr->attlen ||
\* dattr->attalign != sattr->attalign'
SameStorage(dattr, sattr) ==
    ~(dattr.attlen # sattr.attlen \/ dattr.attalign # sattr.attalign)

MatchRaise(detail) ==
    /\ match_pc' = "raised"
    /\ match_detail' = detail
    /\ UNCHANGED << dst_tupdesc, src_tupdesc, match_i >>

\* the test of the attribute counts, then i = 0
MatchEnter ==
    /\ match_pc = "start"
    /\ UNCHANGED << load_vars, conf_vars, checker_vars, again_vars, line_vars,
                former_vars >>
    /\ IF natts(dst_tupdesc) # natts(src_tupdesc)
       THEN MatchRaise("natts")
       ELSE /\ match_pc' = "loop"
            /\ match_i' = 0
            /\ UNCHANGED << dst_tupdesc, src_tupdesc, match_detail >>

\* the loop's test and one pass of its body, i++ included
MatchLoop ==
    /\ match_pc = "loop"
    /\ UNCHANGED << load_vars, conf_vars, checker_vars, again_vars, line_vars,
                former_vars >>
    /\ IF ~(match_i < natts(dst_tupdesc))
       THEN /\ match_pc' = "returned"
            /\ UNCHANGED << dst_tupdesc, src_tupdesc, match_i, match_detail >>
       ELSE LET dattr == dst_tupdesc.attrs[match_i + 1]
                sattr == src_tupdesc.attrs[match_i + 1]
                continue == /\ match_i' = match_i + 1
                            /\ UNCHANGED << match_pc, dst_tupdesc, src_tupdesc,
                                            match_detail >>
            IN  IF dattr.atttypid = sattr.atttypid
                THEN continue
                ELSE IF ~dattr.attisdropped
                THEN MatchRaise("type")
                ELSE IF ~SameStorage(dattr, sattr)
                THEN MatchRaise("storage")
                ELSE continue

\* tupledesc_match called on any two descriptors
InitMatch ==
    /\ AgainIdle
    /\ LinesIdle
    /\ FormerIdle
    /\ CheckerIdle
    /\ InitConfig
    /\ max_parse_errors = rd.max_parse_errors
    /\ proc = NoProc
    /\ LoadStart
    /\ match_pc = "start"
    /\ dst_tupdesc \in TupleDescs("t_row")
    /\ src_tupdesc \in TupleDescs("c")
    /\ match_i = 0
    /\ match_detail = "none"

NextMatch ==
    \/ MatchEnter
    \/ MatchLoop

SpecMatch == InitMatch /\ [][NextMatch]_vars

(* ------------------------------------------------------------------ *)
(* CheckerInit, CheckerTerm                                            *)
(* ------------------------------------------------------------------ *)

\* columns per relation
MaxCols == 2

\* the relations: the columns' attnotnull, and the descriptor's constr, which
\* the relation cache leaves NULL only for a relation without NOT NULL
\* columns, CHECK constraints and defaults
Relations ==
    { [attnotnull |-> a, constr |-> c] :
        a \in UNION { [1..n -> BOOLEAN] : n \in 0..MaxCols },
        c \in {NULL} \cup { Ptr([has_not_null |-> h, num_check |-> k]) :
                                h \in BOOLEAN, k \in 0..1 } }

HasNotNullColumn(r) == \E n \in 1..Len(r.attnotnull) : r.attnotnull[n]

\* what the relation cache builds
WellFormed(r) ==
    IF r.constr = NULL
    THEN ~HasNotNullColumn(r)
    ELSE r.constr[1].has_not_null = HasNotNullColumn(r)

\* a test that looks at the NOT NULL columns only
NeedsChecker_NotNullOnly(chk, desc) ==
    desc.constr # NULL /\ desc.constr[1].has_not_null

\* 'desc->constr && (checker->check_constraints || desc->constr->has_not_null)'
NeedsChecker(chk, desc) ==
    desc.constr # NULL /\ (chk.check_constraints \/ desc.constr[1].has_not_null)

\* makeNode(ResultRelInfo) and the four assignments
ResultRelInfo(r) ==
    [ri_RangeTableIndex |-> 1, ri_RelationDesc |-> Ptr(r),
     ri_TrigDesc |-> NULL, ri_TrigInstrument |-> NULL]

\* a CheckerInit that closes the relation and keeps its reference
RelAfterClose_Kept(r) == r

\* 'checker->rel = NULL' after heap_close
RelAfterClose(r) == NULL

CheckerInit ==
    /\ chk_pc = "start"
    /\ UNCHANGED << load_vars, conf_vars, match_vars, again_vars, line_vars,
                former_vars >>
    /\ \E GetDatabaseEncoding \in {PG_SQL_ASCII, PG_EUC_JP, PG_UTF8} :
        LET desc == rel
            c1 == [checker EXCEPT
                     !.rel = Ptr(rel),
                     !.db_encoding = GetDatabaseEncoding,
                     !.check_encoding =
                        IF /\ checker.encoding # -1
                           /\ checker.encoding # PG_SQL_ASCII
                           /\ GetDatabaseEncoding # PG_SQL_ASCII
                        THEN TRUE ELSE @]
            c2 == IF NeedsChecker(c1, desc)
                  THEN [c1 EXCEPT
                          !.has_constraints = IF c1.check_constraints THEN TRUE ELSE @,
                          !.has_not_null = IF desc.constr[1].has_not_null THEN TRUE ELSE @,
                          !.resultRelInfo = Ptr(ResultRelInfo(rel))]
                  ELSE c1
            c3 == IF c2.has_constraints
                  THEN [c2 EXCEPT
                          !.estate = Ptr([es_result_relations |-> c2.resultRelInfo,
                                          es_num_result_relations |-> 1,
                                          es_result_relation_info |-> c2.resultRelInfo]),
                          !.slot = Ptr(desc.attnotnull)]
                  ELSE c2
            close == ~c3.has_constraints /\ ~c3.has_not_null
        IN  /\ checker' = IF close THEN [c3 EXCEPT !.rel = RelAfterClose(@)] ELSE c3
            /\ freed' = IF close THEN [freed EXCEPT !.rel = @ + 1] ELSE freed
    /\ chk_pc' = "inited"
    /\ UNCHANGED rel

CheckerTerm ==
    /\ chk_pc = "inited"
    /\ UNCHANGED << load_vars, conf_vars, match_vars, again_vars, line_vars,
                former_vars >>
    /\ freed' = [rel |-> IF checker.rel # NULL THEN freed.rel + 1 ELSE freed.rel,
                 slot |-> IF checker.slot # NULL THEN freed.slot + 1 ELSE freed.slot,
                 estate |-> IF checker.estate # NULL THEN freed.estate + 1
                            ELSE freed.estate]
    /\ chk_pc' = "termed"
    /\ UNCHANGED << checker, rel >>

\* a Checker with its options set, about to be given a relation
InitChecker ==
    /\ AgainIdle
    /\ LinesIdle
    /\ FormerIdle
    /\ MatchIdle
    /\ InitConfig
    /\ max_parse_errors = rd.max_parse_errors
    /\ proc = NoProc
    /\ LoadStart
    /\ chk_pc = "start"
    /\ \E encoding \in {-1, PG_SQL_ASCII, PG_EUC_JP, PG_UTF8}, cc \in BOOLEAN :
            checker = NewChecker(encoding, cc)
    /\ rel \in { r \in Relations : WellFormed(r) }
    /\ freed = NothingFreed

NextChecker ==
    \/ CheckerInit
    \/ CheckerTerm

SpecChecker == InitChecker /\ [][NextChecker]_vars

(* ------------------------------------------------------------------ *)
(* ParseControlFile run twice on the same arguments                    *)
(* ------------------------------------------------------------------ *)

\* lines of the control file and segments of the options, together
MaxScript == 4

ScriptLines ==
    { Directive("TYPE", Word("csv")), Directive("TABLE", Word("t")),
      Directive("INFILE", PathA), Directive("LOGFILE", PathB),
      Directive("ON_DUPLICATE", Word("REMOVE_NEW")), Directive("DELIMITER", Word(",")) }

\* the arguments of ReaderCreate for the lines 'all': given in a control file
\* up to line k and in the options from there, or in the options alone; tm
\* and the catalog are TimeStamp and RangeVarGetRelid in both calls
Split(all) ==
    { [fname |-> "readable", file |-> SubSeq(all, 1, k),
       options |-> SubSeq(all, k + 1, Len(all))] : k \in 0..Len(all) }
    \cup { [fname |-> "none", file |-> << >>, options |-> all] }

\* the line sequences of n lines
Scripts(n) == [1..n -> ScriptLines]

\* a second call that goes on with the Reader of the first
SecondReader_Reused(r) == r

\* each call of ReaderCreate allocates its Reader: palloc0 and the three
\* assignments
SecondReader(r) == NewReader

AgainOpen ==
    /\ conf_pc = "start"
    /\ UNCHANGED << load_vars, unit_vars >>
    /\ OpenControlFileAs(script.fname)
    /\ UNCHANGED << nlines, offered, parser_inits >>

\* fgets returns the control file's next line
AgainFileLine ==
    /\ conf_pc = "file"
    /\ nlines < Len(script.file)
    /\ UNCHANGED << load_vars, unit_vars >>
    /\ ReadLine(script.file[nlines + 1])

AgainFileEnd ==
    /\ nlines = Len(script.file)
    /\ ControlFileEnd

\* the next newline-ended segment of the options
AgainOptionsLine ==
    /\ conf_pc = "options"
    /\ nlines - Len(script.file) < Len(script.options)
    /\ UNCHANGED << load_vars, unit_vars >>
    /\ ReadLine(script.options[nlines - Len(script.file) + 1])

AgainEnd ==
    /\ nlines = Len(script.file) + Len(script.options)
    /\ ParseControlFileEnd

\* the first call's ParseControlFile has returned or raised: ReaderCreate is
\* called again with the same arguments
Again ==
    /\ run = 1
    /\ conf_pc \in {"resolved", "failed"}
    /\ first' = [conf_pc |-> conf_pc, conf_err |-> conf_err, rd |-> rd]
    /\ run' = 2
    /\ rd' = SecondReader(rd)
    /\ conf_pc' = "start"
    /\ conf_err' = "none"
    /\ nlines' = 0
    /\ offered' = "none"
    /\ applied' = {}
    /\ twice' = {}
    /\ UNCHANGED << parser_inits, script, load_vars, match_vars, checker_vars,
                    line_vars, former_vars >>

InitAgain ==
    /\ LinesIdle
    /\ FormerIdle
    /\ MatchIdle
    /\ CheckerIdle
    /\ InitConfig
    /\ max_parse_errors = rd.max_parse_errors
    /\ proc = NoProc
    /\ LoadStart
    /\ \E n \in 0..MaxScript : \E all \in Scripts(n) : script \in Split(all)
    /\ run = 1
    /\ first = NoResult

NextAgain ==
    \/ AgainOpen
    \/ AgainFileLine
    \/ AgainFileEnd
    \/ AgainOptionsLine
    \/ AgainEnd
    \/ Again

SpecAgain == InitAgain /\ [][NextAgain]_vars

(* ------------------------------------------------------------------ *)
(* ParseControlFile: fgets, and the segments of the options            *)
(* ------------------------------------------------------------------ *)

LINEBUF == 1024

\* lines of the control file and segments of the options, together
MaxSegs == 2

Min(a, b) == IF a < b THEN a ELSE b

\* what a line holds before its end, and its length in bytes, the newline
\* counted: short, or at the buffer's size
Payloads == { Directive("TABLE", Word("t")), Directive("VERBOSE", Word("YES")), Other("empty") }

Lens == { 8, LINEBUF - 1, LINEBUF, LINEBUF + 1 }

Elems == [payload : Payloads, len : Lens]

\* what may follow the last newline of the options: nothing, a short
\* directive, a long one
Tails ==
    { NoTail, [payload |-> Directive("VERBOSE", Word("YES")), len |-> 8],
      [payload |-> Directive("TABLE", Word("nosuch")), len |-> LINEBUF + 1] }

\* the first k of the lines 'all' in a control file whose last line ends
\* with a newline or not, the others in the options
TextOf(all, k, fname, lastnl, tail) ==
    [fname |-> fname,
     file |-> [i \in 1..k |-> [payload |-> all[i].payload, len |-> all[i].len,
                               nl |-> (i < k \/ lastnl)]],
     options |-> SubSeq(all, k + 1, Len(all)),
     tail |-> tail]

\* fgets(buf, LINEBUF, file): the bytes stored, the terminating NUL not counted
FgetsLen(line) == Min(line.len, LINEBUF - 1)

\* whether the bytes fgets stored end with the line's newline
FgetsNewline(line) == line.nl /\ line.len <= LINEBUF - 1

\* 'len = Min(r - options + 1, LINEBUF)'
SegmentLen(seg) == Min(seg.len, LINEBUF)

\* whether the len bytes copied end with the segment's newline
SegmentNewline(seg) == SegmentLen(seg) = seg.len

\* a loop that takes what follows the last newline for one more segment
Segments_WithTail(t) ==
    IF t.tail = NoTail THEN t.options ELSE Append(t.options, t.tail)

\* the segments the loop 'for (r = strchr(options, '\n'); r; ...)' finds
Segments(t) == t.options

\* the writes into buf: its highest index so far, and whether one fell
\* outside buf[0..LINEBUF-1]
Written(b, index) ==
    [b EXCEPT !.top = IF index > @ THEN index ELSE @,
              !.overrun = @ \/ index > LINEBUF - 1]

\* 'if (fname && fname[0])' and the opening of the control file
LinesOpen ==
    /\ conf_pc = "start"
    /\ UNCHANGED << load_vars, unit_vars >>
    /\ OpenControlFileAs(IF input.fname THEN "readable" ELSE "none")
    /\ UNCHANGED << nlines, offered, parser_inits >>

\* fgets stores a line, or the part of it that fits, and the NUL after it;
\* ParseControlFileLine finds the newline at its end or raises
LinesFgets ==
    /\ conf_pc = "file"
    /\ nlines < Len(input.file)
    /\ UNCHANGED << load_vars, match_vars, checker_vars, again_vars, former_vars,
                input >>
    /\ LET line == input.file[nlines + 1] IN
        /\ buf' = Written(buf, FgetsLen(line))
        /\ ReadLine(IF FgetsNewline(line) THEN line.payload ELSE Other("too_long"))

\* fgets returns NULL
LinesFileEnd ==
    /\ nlines = Len(input.file)
    /\ ControlFileEnd

\* memcpy of the segment, 'buf[len] = 0' and ParseControlFileLine.  When len
\* is LINEBUF the NUL is written behind buf: the process may end there; if
\* it goes on, buf may or may not be read as ending where it was meant to
LinesSegment ==
    /\ conf_pc = "options"
    /\ ~buf.crashed
    /\ nlines - Len(input.file) < Len(Segments(input))
    /\ UNCHANGED << load_vars, match_vars, checker_vars, again_vars, former_vars,
                input >>
    /\ LET seg == Segments(input)[nlines - Len(input.file) + 1]
           len == SegmentLen(seg)
           b == Written(buf, len)
       IN  IF len > LINEBUF - 1
           THEN \/ /\ buf' = [b EXCEPT !.crashed = TRUE]
                   /\ UNCHANGED conf_vars
                \/ /\ buf' = b
                   /\ \E newline \in {SegmentNewline(seg), FALSE} :
                        ReadLine(IF newline THEN seg.payload ELSE Other("too_long"))
           ELSE /\ buf' = b
                /\ ReadLine(IF SegmentNewline(seg) THEN seg.payload
                            ELSE Other("too_long"))

\* strchr finds no further newline: the rest of ParseControlFile
LinesEnd ==
    /\ ~buf.crashed
    /\ nlines = Len(input.file) + Len(Segments(input))
    /\ ParseControlFileEnd

InitLines ==
    /\ FormerIdle
    /\ MatchIdle
    /\ CheckerIdle
    /\ AgainIdle
    /\ InitConfig
    /\ max_parse_errors = rd.max_parse_errors
    /\ proc = NoProc
    /\ LoadStart
    /\ \E n \in 0..MaxSegs : \E all \in [1..n -> Elems] :
        \E k \in 0..n, fname \in BOOLEAN, lastnl \in BOOLEAN, tail \in Tails :
            /\ k > 0 => fname
            /\ input = TextOf(all, IF fname THEN k ELSE 0, fname, lastnl, tail)
    /\ buf = NoBuf

NextLines ==
    \/ LinesOpen
    \/ LinesFgets
    \/ LinesFileEnd
    \/ LinesSegment
    \/ LinesEnd

SpecLines == InitLines /\ [][NextLines]_vars

(* ------------------------------------------------------------------ *)
(* TupleFormerInit and TupleFormerNullTuple                            *)
(* ------------------------------------------------------------------ *)

\* an entry that palloc returned and nothing has written yet
Unwritten == -1

\* the filters FilterInit hands over: none (funcstr unset, nargs and fn_ndargs
\* zero), or a function of nargs arguments, func.nargs of ParseFunction, of
\* which fn_ndargs, its pronargdefaults, have defaults
Filters ==
    {NoFormerArgs.filter} \cup
    { f \in [funcstr : {TRUE}, nargs : 0..MaxArgs, fn_ndargs : 0..MaxArgs] :
        f.fn_ndargs <= f.nargs }

\* 'natts': the entries of typIOParam, typInput, typMod and attnum
FormerNatts(flt, desc) == IF flt.funcstr THEN flt.nargs ELSE natts(desc)

\* buffers sized 'maxatts = natts' in both branches
FormerMaxatts_ArgsOnly(flt, desc) == FormerNatts(flt, desc)

\* 'maxatts': the entries of values and isnull
FormerMaxatts(flt, desc) ==
    IF flt.funcstr THEN Max(flt.nargs, natts(desc)) ELSE natts(desc)

\* the positions, counted from 0, of the columns that are not dropped
NonDropped(desc) == {j \in 0..(natts(desc) - 1) : ~desc.attrs[j + 1].attisdropped}

\* 'array[index] = v': the array after the write; a write outside of it
\* leaves it as it is
Store(array, index, v) ==
    IF index \in DOMAIN array THEN [array EXCEPT ![index] = v] ELSE array

\* the copy of the descriptor and the allocations: values and isnull of
\* maxatts entries, isnull set to true; attnum and the type arrays of natts
TupleFormerInitEnter ==
    /\ fm_pc = "start"
    /\ UNCHANGED << load_vars, conf_vars, match_vars, checker_vars, again_vars,
                    line_vars, fm_args, fm_i >>
    /\ LET flt == fm_args.filter
           desc == fm_args.desc
           n == FormerNatts(flt, desc)
           m == FormerMaxatts(flt, desc)
       IN  former' = [desc |-> desc,
                      values |-> [j \in 0..(m - 1) |-> Unwritten],
                      isnull |-> [j \in 0..(m - 1) |-> TRUE],
                      attnum |-> [j \in 0..(n - 1) |-> Unwritten],
                      typed |-> {},
                      maxfields |-> Unwritten,
                      minfields |-> Unwritten,
                      overrun |-> FALSE]
    /\ fm_pc' = "allocated"

\* 'if (filter->funcstr)': maxfields and minfields from the function
FormerArgFields ==
    /\ fm_pc = "allocated"
    /\ fm_args.filter.funcstr
    /\ UNCHANGED << load_vars, conf_vars, match_vars, checker_vars, again_vars,
                    line_vars, fm_args >>
    /\ LET n == FormerNatts(fm_args.filter, fm_args.desc) IN
        former' = [former EXCEPT !.maxfields = n,
                                 !.minfields = n - fm_args.filter.fn_ndargs]
    /\ fm_i' = 0
    /\ fm_pc' = "args"

\* one turn of 'for (i = 0; i < natts; i++)' over the arguments
FormerArg ==
    /\ fm_pc = "args"
    /\ fm_i < FormerNatts(fm_args.filter, fm_args.desc)
    /\ UNCHANGED << load_vars, conf_vars, match_vars, checker_vars, again_vars,
                    line_vars, fm_args, fm_pc >>
    /\ former' = [former EXCEPT !.typed = @ \cup {fm_i},
                                !.attnum = Store(@, fm_i, fm_i),
                                !.overrun = @ \/ fm_i \notin DOMAIN former.attnum]
    /\ fm_i' = fm_i + 1

\* the loop over the arguments is left
FormerArgsEnd ==
    /\ fm_pc = "args"
    /\ ~(fm_i < FormerNatts(fm_args.filter, fm_args.desc))
    /\ UNCHANGED << load_vars, conf_vars, match_vars, checker_vars, again_vars,
                    line_vars, fm_args, former, fm_i >>
    /\ fm_pc' = "done"

\* the else branch: 'former->maxfields = 0'
FormerColumnFields ==
    /\ fm_pc = "allocated"
    /\ ~fm_args.filter.funcstr
    /\ UNCHANGED << load_vars, conf_vars, match_vars, checker_vars, again_vars,
                    line_vars, fm_args >>
    /\ former' = [former EXCEPT !.maxfields = 0]
    /\ fm_i' = 0
    /\ fm_pc' = "columns"

\* one turn of 'for (i = 0; i < natts; i++)' over the columns: a dropped
\* column is passed over, any other is entered at attnum[maxfields]
FormerColumn ==
    /\ fm_pc = "columns"
    /\ fm_i < FormerNatts(fm_args.filter, fm_args.desc)
    /\ UNCHANGED << load_vars, conf_vars, match_vars, checker_vars, again_vars,
                    line_vars, fm_args, fm_pc >>
    /\ IF fm_args.desc.attrs[fm_i + 1].attisdropped
       THEN UNCHANGED former
       ELSE former' = [former EXCEPT
                         !.typed = @ \cup {fm_i},
                         !.attnum = Store(@, former.maxfields, fm_i),
                         !.overrun = @ \/ former.maxfields \notin DOMAIN former.attnum,
                         !.maxfields = @ + 1]
    /\ fm_i' = fm_i + 1

\* the loop over the columns is left: 'former->minfields = former->maxfields'
FormerColumnsEnd ==
    /\ fm_pc = "columns"
    /\ ~(fm_i < FormerNatts(fm_args.filter, fm_args.desc))
    /\ UNCHANGED << load_vars, conf_vars, match_vars, checker_vars, again_vars,
                    line_vars, fm_args, fm_i >>
    /\ former' = [former EXCEPT !.minfields = former.maxfields]
    /\ fm_pc' = "done"

\* TupleFormerNullTuple: the two memsets write the first desc->natts entries
\* of values and of isnull; a write outside of them may end the process or
\* go unnoticed
FormerNullTuple ==
    /\ fm_pc = "done"
    /\ UNCHANGED << load_vars, conf_vars, match_vars, checker_vars, again_vars,
                    line_vars, fm_args, fm_i >>
    /\ LET n == natts(former.desc)
           inside == \A j \in 0..(n - 1) :
                        j \in DOMAIN former.values /\ j \in DOMAIN former.isnull
       IN  \E crashed \in (IF inside THEN {FALSE} ELSE BOOLEAN) :
            /\ former' = [former EXCEPT
                            !.values = [j \in DOMAIN @ |-> IF j < n THEN 0 ELSE @[j]],
                            !.isnull = [j \in DOMAIN @ |-> IF j < n THEN TRUE ELSE @[j]],
                            !.overrun = @ \/ ~inside]
            /\ fm_pc' = IF crashed THEN "crashed" ELSE "null_tuple"

\* TupleFormerInit called with any filter on any descriptor of the target
InitFormer ==
    /\ MatchIdle
    /\ CheckerIdle
    /\ AgainIdle
    /\ LinesIdle
    /\ InitConfig
    /\ max_parse_errors = rd.max_parse_errors
    /\ proc = NoProc
    /\ LoadStart
    /\ fm_pc = "start"
    /\ fm_args \in [filter : Filters, desc : TupleDescs("t_row")]
    /\ former = NoFormer
    /\ fm_i = 0

NextFormer ==
    \/ TupleFormerInitEnter
    \/ FormerArgFields
    \/ FormerArg
    \/ FormerArgsEnd
    \/ FormerColumnFields
    \/ FormerColumn
    \/ FormerColumnsEnd
    \/ FormerNullTuple

SpecFormer == InitFormer /\ [][NextFormer]_vars

(* ================================================================== *)
(* Properties of the load (Spec)                                       *)
(* ================================================================== *)

\* parse errors absorbed so far: the PG_CATCH block of ReaderNext ran to its end
absorbed == Len(bad_records)

AllNull(t) == Len(t) = natts(TargetDesc) /\ \A i \in 1..Len(t) : t[i]

\* FilterTuple has just been left, by return or by raise
FilterLeft ==
    last \in {"strict_skip", "null_result", "checked_result", "result", "mismatch",
              "func_rollback"}

\* FilterTuple is between the begin of the sub-transaction and its end
InSubXact == pc \in {"f_invoke", "f_catch", "f_ret"}

(* C1: quota boundary of ReaderNext.  With max_parse_errors = N >= 0, after
   each of the first N absorbed parse errors the loop condition holds and the
   loop goes on with the next record; the (N+1)-th absorbed parse error sets
   eof with parse_errors = N+1, and the call returns no row with that count. *)
C1_QuotaBoundary ==
    /\ max_parse_errors >= 0
    /\ (last = "absorbed" /\ absorbed <= max_parse_errors) =>
            /\ ~eof /\ tuple = NULL /\ pc = "until"
            /\ ENABLED LoopAgain /\ ~ENABLED ReaderNextReturn
    /\ (last = "absorbed" /\ absorbed - 1 = max_parse_errors) =>
            /\ eof /\ stop = "quota" /\ parse_errors - 1 = max_parse_errors
            /\ ENABLED ReaderNextReturn /\ ~ENABLED LoopAgain
    /\ (last = "return" /\ stop = "quota" /\ absorbed - 1 = max_parse_errors) =>
            /\ exit = "norow" /\ tuple = NULL
            /\ parse_errors - 1 = max_parse_errors
    /\ (done = "quota" /\ ~late) => absorbed - 1 = max_parse_errors

\* the third error under PARSE_ERRORS = 2 has ended the call with no row
C1_Witness ==
    /\ last = "return" /\ exit = "norow" /\ done = "quota" /\ ~late
    /\ max_parse_errors = 2 /\ parse_errors = 3
    /\ absorbed = 3

(* C2 as stated: every absorbed error adds one to parse_errors, one log line
   and one record to the parse bad file, so the records dumped equal
   parse_errors after any sequence of ReaderNext calls. *)
C2_Original ==
    /\ Len(log) = parse_errors
    /\ Len(bad_records) = parse_errors

(* C2, amended: every absorbed error (also the one that exceeds the quota)
   adds exactly one to parse_errors, one log line and one record - the record
   the log line names - to the parse bad file, and unless the quota is
   exceeded the loop goes on; the records dumped equal parse_errors except
   after the call in which AllocateFile failed on the parse bad file: there
   the error is counted and logged, nothing is dumped and ReaderNext raises. *)
C2_AbsorbedCounted ==
    /\ [](/\ Len(log) = parse_errors
          /\ \A i \in 1..Len(log) : log[i].n = i
          /\ IF last = "open_failed"
             THEN pc = "raised" /\ Len(bad_records) = parse_errors - 1
             ELSE /\ Len(bad_records) = parse_errors
                  /\ \A i \in 1..Len(log) : bad_records[i] = log[i].rec
          /\ (last = "absorbed" /\ parse_errors <= max_parse_errors) =>
                (pc = "until" /\ ~eof /\ tuple = NULL))
    /\ [][(pc = "catch" /\ pc' = "until") =>
            /\ parse_errors' = parse_errors + 1
            /\ Len(log') = Len(log) + 1
            /\ bad_records' = Append(bad_records, count)
            /\ log'[Len(log')].rec = count]_vars

\* an error over the quota was absorbed: counted, logged and dumped
C2_Witness ==
    /\ last = "absorbed" /\ eof
    /\ parse_errors = 2 /\ max_parse_errors = 1
    /\ Len(bad_records) = 2 /\ Len(log) = 2

(* C3: an error raised while no field is being parsed (parsing_field < 0), and
   a query cancel or an administrator's shutdown raised at any point, leaves
   ReaderNext at once: parse_errors, the log and the parse bad file are
   unchanged, whatever quota remains. *)
C3_NeverAbsorbed ==
    [][(pc = "catch" /\ (parsing_field < 0 \/ err \in {"QUERY_CANCELED", "ADMIN_SHUTDOWN"})) =>
            /\ pc' = "raised" /\ exit' = "raise"
            /\ err' = err
            /\ parse_errors' = parse_errors
            /\ log' = log
            /\ bad_records' = bad_records
            /\ parse_fp' = parse_fp
            /\ eof' = eof]_vars

\* a shutdown raised by the filter function (parsing_field 0) under an
\* unlimited quota has left ReaderNext
C3_Witness ==
    /\ last = "rethrow" /\ pc = "raised"
    /\ err = "ADMIN_SHUTDOWN" /\ parsing_field = 0
    /\ max_parse_errors = INT64_MAX
    /\ parse_errors = 1

(* C4 as stated: once ReaderNext has returned no row (quota exceeded or end of
   input), every later call returns no row, reads no further record and
   leaves parse_errors unchanged. *)
C4_Original ==
    [][done # "no" =>
            /\ count' = count
            /\ parse_errors' = parse_errors
            /\ (pc' = "idle" => exit' = "norow")]_vars

(* C4, amended: ReaderNext keeps no Done state; a call returns no row, reads
   no record and leaves parse_errors and the parse bad file unchanged whenever
   the parser reports the end of the input in it - so Done by end of input is
   terminal as long as the parser goes on reporting it - while a call made
   after a quota stop reads the next record like any other call. *)
C4_EndOfInputTerminal ==
    /\ [][parser_eof =>
            /\ count' = count
            /\ parse_errors' = parse_errors
            /\ bad_records' = bad_records
            /\ (pc = "until" => pc' = "idle" /\ exit' = "norow" /\ tuple' = NULL)]_vars
    /\ [](last = "eof" => (pc = "until" /\ eof /\ tuple = NULL))

\* a call made after the end of the input has again returned no row
C4_Witness ==
    /\ late /\ done = "eof" /\ last = "return" /\ exit = "norow"
    /\ count = 1

(* C8: sub-transaction bracketing in FilterTuple.  The function is invoked
   only between one BeginInternalSubTransaction and one end - a release when
   it returned, a rollback when it raised - and on every exit of FilterTuple
   the nesting depth, CurrentMemoryContext and CurrentResourceOwner are those
   of its entry; outside FilterTuple no sub-transaction is open. *)
C8_SubXactBracket ==
    /\ [](/\ begins = invocations + (IF pc = "f_invoke" THEN 1 ELSE 0)
          /\ releases + rollbacks = begins - (IF InSubXact THEN 1 ELSE 0)
          /\ InSubXact => (subxact_depth = f_entry.xact.depth + 1
                           /\ cur_owner = "subxact_owner")
          /\ FilterLeft => xact = f_entry.xact
          /\ ~InSubXact => subxact_depth = 0)
    /\ [][/\ (pc = "f_invoke" => invocations' = invocations + 1)
          /\ (pc = "f_catch" => rollbacks' = rollbacks + 1 /\ releases' = releases)
          /\ (pc = "f_ret" => releases' = releases + 1 /\ rollbacks' = rollbacks)
          /\ (pc \notin {"f_catch", "f_ret"} =>
                rollbacks' = rollbacks /\ releases' = releases)]_vars

\* the function has raised after it had returned once: one release, one
\* rollback, and FilterTuple left as it was entered
C8_Witness ==
    /\ last = "func_rollback"
    /\ releases = 1 /\ rollbacks = 1 /\ begins = 2
    /\ xact = f_entry.xact /\ subxact_depth = 0

(* C9 as stated: over any sequence of FilterTuple calls the result shape is
   checked (tupledesc_match) at most once in total, for a named composite
   type and for a RECORD alike. *)
C9_Original == shape_checks <= 1

PlainRecord == proc.prorettype = "record" /\ proc.outdesc = "none"

(* C9, amended: for a function returning a named composite type, or a RECORD
   described by OUT parameters, tupledesc_match runs at most once - in
   FilterInit or on the first non-null result - and once tupledesc_matched is
   set no call runs it; for a function returning RECORD without OUT
   parameters the result is never cached: tupledesc_match runs on every
   non-null result. *)
C9_CheckedOnceUnlessRecord ==
    /\ [](/\ ~PlainRecord => shape_checks <= 1
          /\ PlainRecord => ~filter.tupledesc_matched)
    /\ [][/\ filter.tupledesc_matched =>
                (shape_checks' = shape_checks /\ filter'.tupledesc_matched)
          /\ (PlainRecord /\ pc = "f_ret" /\ ~fcinfo.isnull) =>
                shape_checks' = shape_checks + 1]_vars

\* a named composite result was returned twice and checked once
C9_Witness ==
    /\ proc.prorettype = "c_ok" /\ last = "result"
    /\ releases = 2 /\ shape_checks = 1 /\ filter.tupledesc_matched

\* strict, and one of the nargs arguments was null when FilterTuple was entered
StrictNullEntry ==
    /\ filter.funcstr /\ filter.fn_strict
    /\ f_entry.isnull # << >>
    /\ \E i \in 1..filter.nargs : f_entry.isnull[i]

(* C10: strict short-circuit.  When the function is strict and one of its
   nargs arguments is null, FilterTuple returns a row whose every target
   column is null; the function is not invoked and no sub-transaction is
   begun. *)
C10_StrictShortCircuit ==
    /\ (pc = "filter" /\ filter.fn_strict /\ \E i \in 1..filter.nargs : former_isnull[i]) =>
            ~ENABLED FilterInvoke
    /\ StrictNullEntry =>
            /\ ~InSubXact
            /\ invocations = f_entry.invocations
            /\ begins = f_entry.begins
            /\ FilterLeft => (last = "strict_skip" /\ AllNull(tuple) /\ pc = "until")

\* strict with two arguments, the second one null: the all-null row
C10_Witness ==
    /\ last = "strict_skip"
    /\ filter.fn_strict /\ filter.nargs = 2
    /\ f_entry.isnull[1] = FALSE /\ f_entry.isnull[2] = TRUE
    /\ AllNull(tuple)
    /\ invocations = f_entry.invocations

(* C11: null result.  When the filter function was invoked and returned SQL
   null, FilterTuple releases the sub-transaction (no rollback), restores the
   entry's context and owner, runs no shape check and caches nothing, and
   returns a row whose every target column is null. *)
C11_NullResult ==
    /\ [](last = "null_result" =>
            /\ pc = "until" /\ AllNull(tuple)
            /\ fcinfo.isnull
            /\ invocations = f_entry.invocations + 1
            /\ xact = f_entry.xact /\ subxact_depth = 0
            /\ parsing_field = -1)
    /\ [][(pc = "f_ret" /\ fcinfo.isnull) =>
            /\ last' = "null_result"
            /\ releases' = releases + 1
            /\ rollbacks' = rollbacks
            /\ shape_checks' = shape_checks
            /\ filter' = filter
            /\ err' = err]_vars

\* a function of a composite type not yet checked returned null: the
\* all-null row, one release, no shape check
C11_Witness ==
    /\ last = "null_result"
    /\ proc.prorettype = "c_bad" /\ ~filter.tupledesc_matched
    /\ AllNull(tuple)
    /\ releases = 1 /\ rollbacks = 0 /\ shape_checks = 0

(* C12: a shape mismatch is fatal.  The DATATYPE_MISMATCH raised by the shape
   check of FilterTuple is raised with parsing_field = -1 and the
   sub-transaction released; ReaderNext re-throws it: parse_errors, the log
   and the parse bad file stay as they are, whatever quota remains, and
   ReaderNext is not entered again. *)
C12_MismatchFatal ==
    /\ [](last = "mismatch" =>
            /\ pc = "catch" /\ err = "DATATYPE_MISMATCH"
            /\ parsing_field = -1
            /\ xact = f_entry.xact /\ subxact_depth = 0)
    /\ [][last = "mismatch" =>
            /\ pc' = "raised" /\ exit' = "raise" /\ err' = err
            /\ parse_errors' = parse_errors
            /\ log' = log
            /\ bad_records' = bad_records
            /\ parse_fp' = parse_fp]_vars
    /\ [](pc = "raised" => ~ENABLED ReaderNextEnter)

\* a mismatching record was returned under an unlimited quota with no error
\* counted so far, and ReaderNext has raised
C12_Witness ==
    /\ pc = "raised" /\ err = "DATATYPE_MISMATCH" /\ last = "rethrow"
    /\ max_parse_errors = INT64_MAX /\ parse_errors = 0
    /\ shape_checks = 1 /\ releases = 1
    /\ bad_records = << >>

(* C18: the parse bad file is opened lazily.  Over a whole load it is opened  *)
(* at most once; the one opening happens in the PG_CATCH block that absorbs  *)
(* the first parse error, before any record has been dumped, and that step   *)
(* dumps the first record into it; no record is ever dumped without the file *)
(* open, and the file is never opened while no parse error has been          *)
(* absorbed.  ReaderClose calls FreeFile on it only when it is not onError   *)
(* and the file was opened.                                                  *)
C18_LazyBadFile ==
    /\ [](/\ opens <= 1
          /\ parse_fp <=> (opens = 1)
          /\ (absorbed = 0 \/ parse_errors = 0) => (opens = 0 /\ ~parse_fp)
          /\ absorbed > 0 => parse_fp
          /\ closed.FreeFile <= opens
          /\ closed.FreeFile = 1 => (closed.called /\ ~closed.onError))
    /\ [][opens' # opens =>
            /\ opens = 0 /\ opens' = 1
            /\ pc = "catch"
            /\ parse_errors = 0 /\ parse_errors' = 1
            /\ bad_records = << >> /\ Len(bad_records') = 1]_vars
    /\ [][closed' # closed =>
            /\ ~closed.called /\ closed'.called
            /\ closed'.FreeFile = IF ~closed'.onError /\ opens = 1 THEN 1 ELSE 0
            /\ UNCHANGED << parse_fp, opens, bad_records >>]_vars

\* two parse errors absorbed, one opening, and ReaderClose without onError
\* closed the file
C18_Witness ==
    /\ closed.called
    /\ ~closed.onError
    /\ closed.FreeFile = 1
    /\ absorbed = 2
    /\ opens = 1

(* C20: bounded error tolerance.  parse_errors never decreases and changes   *)
(* only by one, in the PG_CATCH block that absorbs an error; the same pass   *)
(* of the block compares the new count with the quota and sets eof exactly   *)
(* when it is above it, and no record is read in that pass; a record is read *)
(* only while parse_errors <= max_parse_errors, as long as the caller has    *)
(* not called again after a no-row result.  In such a load parse_errors      *)
(* never exceeds max_parse_errors + 1, and every row is returned while       *)
(* parse_errors <= max_parse_errors.                                         *)
C20_BoundedErrors ==
    /\ [][/\ parse_errors' \in {parse_errors, parse_errors + 1}
          /\ parse_errors' # parse_errors =>
                /\ pc = "catch" /\ ~eof
                /\ Len(log') = Len(log) + 1
                /\ eof' = (parse_errors' > max_parse_errors)
                /\ (stop' = "quota") = (parse_errors' > max_parse_errors)
                /\ count' = count
                /\ pc' \in {"until", "raised"}
          /\ (count' # count /\ ~late) => parse_errors <= max_parse_errors]_vars
    /\ [](~late =>
            /\ parse_errors - 1 <= max_parse_errors
            /\ (pc = "read" => parse_errors <= max_parse_errors)
            /\ (exit = "row" => (tuple # NULL /\ parse_errors <= max_parse_errors)))

\* under PARSE_ERRORS = 1, three records read: one gave a row, two gave
\* errors, and the second error ended the load with parse_errors = 2
C20_Witness ==
    /\ ~late
    /\ max_parse_errors = 1
    /\ parse_errors = 2
    /\ exit = "norow"
    /\ done = "quota"
    /\ count = 3

\* the PG_CATCH block of ReaderNext is about to handle an error that the
\* filter function raised
FunctionError == pc = "catch" /\ last = "func_rollback"

\* C21 as stated: every error raised by the filter function is absorbed as a
\* parse error, counted and its record dumped
C21_Original ==
    [][FunctionError =>
        /\ parse_errors' = parse_errors + 1
        /\ bad_records' = Append(bad_records, count)]_vars

(* C21: errors are attributed through parsing_field.  ReaderNext sets it to  *)
(* -1 before each record; FilterTuple sets it to 0 just before it calls the  *)
(* function and back to -1 only after the function has returned.  So an      *)
(* error the function raises reaches ReaderNext with parsing_field = 0: but  *)
(* for a query cancel or an administrator's shutdown, which are re-raised,   *)
(* it is counted as a parse error and logged with the record's ordinal and   *)
(* no column, and its record is dumped unless the parse bad file cannot be   *)
(* opened.  A log line carries a column only when parsing_field > 0.         *)
C21_ErrorAttribution ==
    /\ [](/\ pc = "read" => parsing_field = -1
          /\ pc \in {"f_invoke", "f_catch"} => parsing_field = 0
          /\ pc = "f_ret" => parsing_field = 0
          /\ FunctionError => parsing_field = 0
          /\ \A n \in 1..Len(log) : log[n].col >= 0)
    /\ [][/\ (pc # "read" /\ pc' = "read") => parsing_field' = -1
          /\ (pc = "filter" /\ pc' = "f_invoke") => parsing_field' = 0
          /\ (parsing_field = 0 /\ parsing_field' # 0) =>
                /\ parsing_field' = -1
                /\ pc = "f_ret" \/ pc' = "read"
          /\ pc = "f_ret" => parsing_field' = -1
          /\ Len(log') # Len(log) =>
                /\ log' = Append(log, [n |-> parse_errors', rec |-> count,
                                        col |-> IF parsing_field > 0
                                                THEN parsing_field ELSE 0])
          /\ FunctionError =>
                IF err \in {"ADMIN_SHUTDOWN", "QUERY_CANCELED"}
                THEN /\ pc' = "raised"
                     /\ UNCHANGED << parse_errors, log, bad_records >>
                ELSE /\ parse_errors' = parse_errors + 1
                     /\ log' = Append(log, [n |-> parse_errors', rec |-> count,
                                             col |-> 0])
                     /\ \/ /\ pc' = "until"
                           /\ bad_records' = Append(bad_records, count)
                        \/ /\ pc' = "raised" /\ err' = "FILE_ACCESS"
                           /\ ~parse_fp
                           /\ UNCHANGED bad_records]_vars

\* the second record's error came from the function: it was absorbed, and
\* its log line names record 2 and no column
C21_Witness ==
    /\ last = "absorbed"
    /\ parsing_field = 0
    /\ rollbacks = 1
    /\ count = 2
    /\ parse_errors = 1
    /\ log = << [n |-> 1, rec |-> 2, col |-> 0] >>
    /\ bad_records = << 2 >>

(* ================================================================== *)
(* Properties of ReaderCreate (SpecConfig)                             *)
(* ================================================================== *)

\* ParseControlFile returned: the Reader is resolved, or already returned
Resolved == conf_pc \in {"resolved", "created"}

\* the step that ends ParseControlFile after its two loops
EndStep == conf_pc = "options" /\ conf_pc' # "options" /\ nlines' = nlines

(* C5: uniqueness of directives. Whenever a directive sets a single-valued   *)
(* keyword (TABLE, INFILE, LOGFILE, PARSE_BADFILE, DUPLICATE_BADFILE, TYPE,  *)
(* WRITER, PARSE_ERRORS, DUPLICATE_ERRORS, LOAD, ON_DUPLICATE, VERBOSE, or   *)
(* an alias) that an earlier directive of the control file or of the         *)
(* options has set, resolution fails: no resolved Reader has had a keyword   *)
(* set twice.                                                                *)
C5_Original == Resolved => twice = {}

(* C6: mandatory directives. When the directives are all applied and TYPE,   *)
(* TABLE or INFILE was set by none of them, resolution fails with the        *)
(* message of the first one missing; every Reader resolved or returned has   *)
(* had all three set and holds a parser, a valid relation and an input file. *)
C6_MandatoryDirectives ==
    /\ [](Resolved =>
            /\ {"TYPE", "TABLE", "INFILE"} \subseteq applied
            /\ rd.parser # NullParser
            /\ rd.relid # InvalidOid
            /\ rd.infile # NullStr)
    /\ [][EndStep /\ ~({"TYPE", "TABLE", "INFILE"} \subseteq applied) =>
            /\ conf_pc' = "failed"
            /\ conf_err' = IF "TYPE" \notin applied THEN "no TYPE specified"
                           ELSE IF "TABLE" \notin applied THEN "no TABLE specified"
                           ELSE "no INFILE specified"]_vars

\* TYPE and TABLE were given, INFILE was not, and resolution failed on it
C6_Witness ==
    /\ conf_pc = "failed"
    /\ conf_err = "no INFILE specified"
    /\ nlines >= 2

\* the four file names of a Reader
FileNames(r) == << r.infile, r.logfile, r.parse_badfile, r.dup_badfile >>

PairwiseDifferent(names) ==
    \A i, j \in 1..Len(names) : i # j => names[i] # names[j]

(* C7: distinct file locators. In every Reader resolved or returned the      *)
(* input file, log file, parse bad file and duplicate bad file names, with   *)
(* the defaults filled in, are four different strings; and when the          *)
(* mandatory directives are there but two of the four names (given, or       *)
(* defaulted) are equal, resolution fails.                                   *)
C7_DistinctFileNames ==
    /\ [](Resolved =>
            /\ PairwiseDifferent(FileNames(rd))
            /\ \A i \in 1..4 : FileNames(rd)[i] # NullStr)
    /\ [][(/\ EndStep
           /\ {"TYPE", "TABLE", "INFILE"} \subseteq applied
           /\ ~PairwiseDifferent(
                    << rd.infile,
                       IF "LOGFILE" \in applied THEN rd.logfile ELSE DefaultLog(rd),
                       IF "PARSE_BADFILE" \in applied THEN rd.parse_badfile
                       ELSE DefaultParseBad(rd),
                       IF "DUPLICATE_BADFILE" \in applied THEN rd.dup_badfile
                       ELSE DefaultDupBad(rd) >>))
           => conf_pc' = "failed" /\ conf_err' = "cannot set the same file name"]_vars

\* a Reader returned with the input file "/a.c", the log file "/b", the
\* duplicate bad file "/d.x/e" and the default parse bad file "...prs.c"
C7_Witness ==
    /\ conf_pc = "created"
    /\ rd.infile = PathA
    /\ rd.logfile = PathB
    /\ rd.dup_badfile = PathD
    /\ rd.parse_badfile = DefaultPath(TargetRelid, << "p", "r", "s", ".", "c" >>)

(* C13: keyword delegation.  A directive whose keyword is none of the        *)
(* resolver's own is offered to the parser chosen so far: when that parser   *)
(* takes it (ParserParam) the directive succeeds and touches nothing but the *)
(* parser; when the parser refuses it - or no TYPE directive has chosen a    *)
(* parser yet - resolution fails with "invalid keyword"; and that error is   *)
(* raised in no other way.                                                   *)
C13_KeywordDelegation ==
    /\ [][(nlines' = nlines + 1 /\ offered' # "none") =>
            IF rd.parser # NullParser /\ ParserParam(rd.parser, ToUpper(offered'))
            THEN /\ conf_pc' = conf_pc
                 /\ conf_err' = "none"
                 /\ rd' = [rd EXCEPT !.parser.params = @ \cup {ToUpper(offered')}]
            ELSE /\ conf_pc' = "failed"
                 /\ conf_err' = "invalid keyword"]_vars
    /\ [](conf_err = "invalid keyword" => (conf_pc = "failed" /\ offered # "none"))
    /\ [](offered # "none" => Keyword(offered) \notin SingleValued)

\* DELIMITER after TYPE = CSV was taken by the parser, and resolution went on
C13_Witness ==
    /\ offered = "DELIMITER"
    /\ conf_pc \in {"file", "options"}
    /\ rd.parser.type = "CSVParser"
    /\ "DELIMITER" \in rd.parser.params

\* counts of parse errors a load may have reached
ErrorCounts == (0..(MaxRecords + 1)) \cup {INT64_MAX}

(* C14: defaults.  A resolved Reader has the Direct writer when no WRITER    *)
(* (or LOADER) directive was given and a quota of 50 when no PARSE_ERRORS    *)
(* (resp. DUPLICATE_ERRORS) directive was given; a quota given as -1 is      *)
(* stored as INT64_MAX, which no count of parse errors exceeds; and the      *)
(* defaults replace nothing a directive has set: writer, quotas and the      *)
(* three output paths given by a directive come out of resolution as given,  *)
(* as do table, input file, parser, limit, duplicate policy and verbosity.   *)
C14_Defaults ==
    /\ [](Resolved =>
            /\ ("WRITER" \notin applied => rd.writer = "DirectWriter")
            /\ ("PARSE_ERRORS" \notin applied => rd.max_parse_errors = 50)
            /\ ("DUPLICATE_ERRORS" \notin applied => rd.max_dup_errors = 50)
            /\ (rd.max_parse_errors = INT64_MAX =>
                    \A n \in ErrorCounts : ~QuotaExceeded(n, rd.max_parse_errors)))
    /\ [](/\ rd.max_parse_errors # -1 /\ rd.max_dup_errors # -1
          /\ (rd.max_parse_errors < -1 =>
                \A k \in {"PARSE_ERRORS", "MAX_ERR_CNT"} :
                    ApplyDirective(rd, k, Word("-1")) =
                        Return([rd EXCEPT !.max_parse_errors = INT64_MAX]))
          /\ (rd.max_dup_errors < -1 =>
                ApplyDirective(rd, "DUPLICATE_ERRORS", Word("-1")) =
                    Return([rd EXCEPT !.max_dup_errors = INT64_MAX])))
    /\ [][(EndStep /\ conf_pc' = "resolved") =>
            /\ rd'.writer = IF "WRITER" \in applied THEN rd.writer ELSE "DirectWriter"
            /\ rd'.max_parse_errors =
                    IF "PARSE_ERRORS" \in applied THEN rd.max_parse_errors ELSE 50
            /\ rd'.max_dup_errors =
                    IF "DUPLICATE_ERRORS" \in applied THEN rd.max_dup_errors ELSE 50
            /\ ("LOGFILE" \in applied => rd'.logfile = rd.logfile)
            /\ ("PARSE_BADFILE" \in applied => rd'.parse_badfile = rd.parse_badfile)
            /\ ("DUPLICATE_BADFILE" \in applied => rd'.dup_badfile = rd.dup_badfile)
            /\ rd'.relid = rd.relid /\ rd'.infile = rd.infile
            /\ rd'.parser = rd.parser /\ rd'.limit = rd.limit
            /\ rd'.on_duplicate = rd.on_duplicate /\ rd'.verbose = rd.verbose]_vars

\* resolved with PARSE_ERRORS given as -1 and neither WRITER nor
\* DUPLICATE_ERRORS given
C14_Witness ==
    /\ conf_pc = "resolved"
    /\ "PARSE_ERRORS" \in applied /\ rd.max_parse_errors = INT64_MAX
    /\ "WRITER" \notin applied /\ rd.writer = "DirectWriter"
    /\ "DUPLICATE_ERRORS" \notin applied /\ rd.max_dup_errors = 50
    /\ "LOGFILE" \in applied /\ rd.logfile = PathB

\* the errors of ParseControlFile and ParseControlFileLine
ConfigErrors ==
    { "control file name must be absolute path", "could not open",
      "too long line", "invalid input", "unterminated quoted field",
      "duplicate", "relation does not exist", "invalid value", "invalid keyword",
      "no TYPE specified", "no TABLE specified", "no INFILE specified",
      "cannot set the same file name" }

(* C15: configuration errors are fatal before the load starts.  A line that  *)
(* is no well-formed directive, an enumerated value outside its set, a       *)
(* missing mandatory directive and two equal file names each raise; once an  *)
(* ERROR is raised ReaderCreate takes no further step and returns no         *)
(* Reader, and after an error of ParseControlFile ParserInit has not been    *)
(* called.  ParserInit is called at most once, and only on a Reader for      *)
(* which ParseControlFile returned: the directives applied, the mandatory    *)
(* ones there, the defaults filled in and the four file names different.     *)
C15_ConfigErrorsFatal ==
    /\ [](/\ parser_inits <= 1
          /\ (conf_pc = "failed" /\ conf_err \in ConfigErrors) => parser_inits = 0
          /\ conf_pc = "failed" => (conf_err # "none" /\ ~ENABLED NextConfig)
          /\ conf_pc # "failed" => conf_err = "none"
          /\ conf_pc = "created" => parser_inits = 1)
    /\ [](conf_pc \in {"file", "options"} =>
            /\ \A k \in {"too_long", "no_equals", "unterminated"} :
                    ParseControlFileLine(rd, Other(k)).err \in ConfigErrors
            /\ ApplyDirective(rd, "TYPE", Word("XML")).err \in ConfigErrors
            /\ ApplyDirective(rd, "WRITER", Word("XML")).err \in ConfigErrors
            /\ ApplyDirective(rd, "ON_DUPLICATE", Word("XML")).err = "invalid value")
    /\ [][(conf_pc # "failed" /\ conf_pc' = "failed" /\ parser_inits' = parser_inits) =>
            conf_err' \in ConfigErrors]_vars
    /\ [][parser_inits' # parser_inits =>
            /\ conf_pc = "resolved"
            /\ {"TYPE", "TABLE", "INFILE"} \subseteq applied
            /\ rd = SetDefaults(rd)
            /\ PairwiseDifferent(FileNames(rd))
            /\ \A i \in 1..4 : FileNames(rd)[i] # NullStr]_vars

\* TYPE, TABLE, INFILE and a LOGFILE equal to the input file: resolution
\* failed on the file names and ParserInit was not called
C15_Witness ==
    /\ conf_pc = "failed"
    /\ conf_err = "cannot set the same file name"
    /\ nlines = 4
    /\ parser_inits = 0

\* keywords that are none of the resolver's own
ParserKeywords == {"DELIMITER", "QUOTE", "SKIP", "FILTER", "COL", "STRIDE"}

(* C22: delegation depends on the order of the lines.  As long as no TYPE    *)
(* directive has been applied, a directive with a keyword the resolver does  *)
(* not know fails with "invalid keyword", also when the parser that a TYPE   *)
(* directive would select at that very point takes the keyword; once that    *)
(* TYPE directive has been applied the same directive is accepted.           *)
C22_OrderDependence ==
    /\ []((conf_pc \in {"file", "options"} /\ rd.parser = NullParser) =>
            /\ "TYPE" \notin applied
            /\ \A k \in ParserKeywords, t \in {"csv", "FIXED"} :
                LET typed == ApplyDirective(rd, "TYPE", Word(t))
                IN  /\ ApplyDirective(rd, k, Word(",")).err = "invalid keyword"
                    /\ typed.err = "none"
                    /\ ParserParam(typed.rd.parser, k) =>
                            ApplyDirective(typed.rd, k, Word(",")) =
                                Return([typed.rd EXCEPT !.parser.params = {k}]))
    /\ [][(nlines' = nlines + 1 /\ offered' # "none" /\ "TYPE" \notin applied) =>
            (conf_pc' = "failed" /\ conf_err' = "invalid keyword")]_vars
    /\ [][(nlines' = nlines + 1 /\ offered' = "DELIMITER" /\ "TYPE" \in applied
                /\ rd.parser.type = "CSVParser") =>
            (conf_pc' = conf_pc /\ conf_err' = "none"
                /\ "DELIMITER" \in rd'.parser.params)]_vars

\* DELIMITER as the first line: resolution failed on the keyword
C22_Witness ==
    /\ conf_pc = "failed"
    /\ conf_err = "invalid keyword"
    /\ offered = "DELIMITER"
    /\ nlines = 1

(* ================================================================== *)
(* Properties of tupledesc_match (SpecMatch)                           *)
(* ================================================================== *)

\* the same number of attributes, and at every position equal type ids or a
\* dropped target attribute of equal length and alignment
Matching(dst, src) ==
    /\ Len(dst.attrs) = Len(src.attrs)
    /\ \A n \in 1..Len(dst.attrs) :
        LET d == dst.attrs[n]
            c == src.attrs[n]
        IN  \/ d.atttypid = c.atttypid
            \/ (d.attisdropped /\ d.attlen = c.attlen /\ d.attalign = c.attalign)

(* C16: tupledesc_match returns exactly when the two descriptors have the    *)
(* same number of attributes and at every position the type ids are equal    *)
(* or the target attribute is dropped and has the source's length and        *)
(* alignment; in every other case it raises the mismatch error.  The call    *)
(* always ends one way or the other, and the load's shape check              *)
(* (tupledesc_match as FilterTuple uses it) gives the same answer.           *)
C16_TupleDescMatch ==
    /\ match_pc \in {"start", "loop", "returned", "raised"}
    /\ match_pc \in {"start", "loop"} => ENABLED NextMatch
    /\ match_pc = "returned" => Matching(dst_tupdesc, src_tupdesc)
    /\ match_pc = "raised" => ~Matching(dst_tupdesc, src_tupdesc)
    /\ match_pc = "returned" => tupledesc_match(dst_tupdesc, src_tupdesc)
    /\ match_pc = "raised" => ~tupledesc_match(dst_tupdesc, src_tupdesc)
    /\ (match_pc = "raised") <=> (match_detail # "none")

\* two columns, the second one dropped in the target and of another type in
\* the result with the same storage: the call returned
C16_Witness ==
    /\ match_pc = "returned"
    /\ natts(dst_tupdesc) = 2
    /\ dst_tupdesc.attrs[1].atttypid = src_tupdesc.attrs[1].atttypid
    /\ dst_tupdesc.attrs[2].atttypid # src_tupdesc.attrs[2].atttypid
    /\ dst_tupdesc.attrs[2].attisdropped

(* ================================================================== *)
(* Properties of the Checker (SpecChecker)                             *)
(* ================================================================== *)

\* CheckerInit has returned, CheckerTerm has not been called
Inited == chk_pc = "inited"

\* the checker kept the relation
Active == checker.rel # NULL

\* C17 as stated: after CheckerInit the checker is active whenever constraint
\* checking was requested or the relation has a NOT NULL column, and has no
\* result-relation info, executor state or slot otherwise
C17_Original ==
    Inited =>
        /\ (checker.check_constraints \/ HasNotNullColumn(rel)) => Active
        /\ ~(checker.check_constraints \/ HasNotNullColumn(rel)) =>
                /\ ~Active
                /\ checker.resultRelInfo = NULL
                /\ checker.estate = NULL
                /\ checker.slot = NULL

(* C17: after CheckerInit the checker is active exactly when the relation's   *)
(* descriptor carries constraint information (constr is not NULL) and        *)
(* constraint checking was requested or the relation has a NOT NULL column;  *)
(* a request for constraint checking on a relation without any constraint    *)
(* information leaves it inactive.  An active checker keeps the relation and *)
(* has a result-relation info for it, and has an executor state and a slot   *)
(* exactly when constraint checking was requested; an inactive one has       *)
(* closed the relation and has none of the three.                            *)
C17_CheckerActivation ==
    Inited =>
        /\ Active <=> (rel.constr # NULL /\
                        (checker.check_constraints \/ HasNotNullColumn(rel)))
        /\ HasNotNullColumn(rel) => Active
        /\ Active =>
                /\ checker.rel = Ptr(rel)
                /\ freed = NothingFreed
                /\ checker.resultRelInfo = Ptr(ResultRelInfo(rel))
                /\ (checker.estate # NULL) <=> checker.check_constraints
                /\ (checker.slot # NULL) <=> checker.check_constraints
                /\ checker.has_constraints = checker.check_constraints
                /\ checker.has_not_null = HasNotNullColumn(rel)
        /\ ~Active =>
                /\ freed = [NothingFreed EXCEPT !.rel = 1]
                /\ checker.resultRelInfo = NULL
                /\ checker.estate = NULL
                /\ checker.slot = NULL
                /\ ~checker.has_constraints /\ ~checker.has_not_null

\* constraint checking requested on a relation with a CHECK constraint and no
\* NOT NULL column: the checker is active, with executor state and slot
C17_Witness ==
    /\ Inited
    /\ checker.check_constraints
    /\ ~HasNotNullColumn(rel)
    /\ Len(rel.attnotnull) = 2
    /\ Active
    /\ checker.estate # NULL

\* CheckerTerm has returned
Termed == chk_pc = "termed"

(* C25: over CheckerInit followed by CheckerTerm the relation handed to the  *)
(* Checker is closed exactly once.  An inactive checker has it closed by     *)
(* CheckerInit, which clears the reference, and CheckerTerm does not close   *)
(* it again; an active checker has it open after CheckerInit and closed by   *)
(* CheckerTerm.  CheckerTerm frees the executor state and drops the slot     *)
(* once each exactly when CheckerInit created them, and never otherwise.     *)
C25_ClosedOnce ==
    /\ [](/\ freed.rel <= 1 /\ freed.slot <= 1 /\ freed.estate <= 1
          /\ chk_pc = "start" => freed = NothingFreed
          /\ Inited =>
                /\ freed.rel = IF Active THEN 0 ELSE 1
                /\ freed.slot = 0 /\ freed.estate = 0
          /\ Termed =>
                /\ freed.rel = 1
                /\ freed.slot = IF checker.slot # NULL THEN 1 ELSE 0
                /\ freed.estate = IF checker.estate # NULL THEN 1 ELSE 0
                /\ (checker.slot # NULL) <=> checker.has_constraints
                /\ (checker.estate # NULL) <=> checker.has_constraints)
    /\ [][(Inited /\ Termed') =>
            /\ freed'.rel = freed.rel + (IF Active THEN 1 ELSE 0)
            /\ checker' = checker]_vars
    /\ [][(chk_pc = "start" /\ Inited') =>
            /\ freed'.rel = IF checker'.rel = NULL THEN 1 ELSE 0
            /\ checker.slot = NULL /\ checker.estate = NULL]_vars

\* no constraint to check: CheckerInit closed the relation, CheckerTerm
\* closed and freed nothing
C25_Witness ==
    /\ Termed
    /\ checker.rel = NULL
    /\ checker.check_constraints
    /\ Len(rel.attnotnull) = 2
    /\ freed = [rel |-> 1, slot |-> 0, estate |-> 0]

(* ================================================================== *)
(* Properties of repeated resolution (SpecAgain)                       *)
(* ================================================================== *)

\* ParseControlFile of the second call has returned or raised
SecondDone == run = 2 /\ conf_pc \in {"resolved", "failed"}

(* C19: resolution is idempotent.  When ParseControlFile is run a second     *)
(* time on the same control-file lines, the same options, the same           *)
(* timestamp and the same catalog, it ends as it did the first time: with    *)
(* the same error, or with a Reader whose table, input file, log and         *)
(* bad-file paths, parser, writer, quotas, row limit, duplicate policy and   *)
(* verbosity are those of the first Reader.                                  *)
C19_IdempotentResolution ==
    SecondDone =>
        /\ first.conf_pc = conf_pc
        /\ first.conf_err = conf_err
        /\ conf_pc = "resolved" =>
                /\ first.rd.relid = rd.relid
                /\ first.rd.infile = rd.infile
                /\ first.rd.logfile = rd.logfile
                /\ first.rd.parse_badfile = rd.parse_badfile
                /\ first.rd.dup_badfile = rd.dup_badfile
                /\ first.rd.parser = rd.parser
                /\ first.rd.writer = rd.writer
                /\ first.rd.max_parse_errors = rd.max_parse_errors
                /\ first.rd.max_dup_errors = rd.max_dup_errors
                /\ first.rd.limit = rd.limit
                /\ first.rd.on_duplicate = rd.on_duplicate
                /\ first.rd.verbose = rd.verbose
                /\ first.rd = rd

\* TYPE and TABLE in the control file, INFILE and LOGFILE in the options:
\* both calls resolved, with the log file of the options
C19_Witness ==
    /\ SecondDone
    /\ conf_pc = "resolved"
    /\ Len(script.file) = 2
    /\ Len(script.options) = 2
    /\ rd.logfile = PathB
    /\ rd.relid = TargetRelid
    /\ first.rd.logfile = PathB

(* ================================================================== *)
(* Properties of the line buffer (SpecLines)                           *)
(* ================================================================== *)

\* C23 as stated: every write ParseControlFile makes into buf is at an index
\* in 0..LINEBUF-1, and a newline-ended segment of LINEBUF bytes or more is
\* rejected as a too long line
C23_Original ==
    /\ buf.top <= LINEBUF - 1
    /\ ~buf.overrun
    /\ ~buf.crashed

\* ParseControlFileLine is called on a line of the control file
FileLineStep == conf_pc = "file" /\ nlines' = nlines + 1

\* ParseControlFileLine is called on a segment of the options
SegmentStep == conf_pc = "options" /\ nlines' = nlines + 1

\* the step is ParseControlFileLine on a buffer that holds the line l with
\* its newline
LineApplied(l) ==
    LET res == ParseControlFileLine(rd, l)
    IN  IF res.err = "none"
        THEN rd' = res.rd /\ conf_pc' = conf_pc /\ conf_err' = "none"
        ELSE conf_pc' = "failed" /\ conf_err' = res.err

(* C24: the options are processed one newline-ended segment at a time, in    *)
(* order, after all the lines of the control file.  Each segment shorter     *)
(* than the line buffer is handed to ParseControlFileLine with its newline   *)
(* and applied; what follows the last newline is never handed to it, is      *)
(* never applied and raises no error.  A line of the control file is         *)
(* applied when it ends with a newline and is shorter than LINEBUF-1         *)
(* characters; the last line without a newline, and a line of LINEBUF-1      *)
(* characters or more, fail with "too long line".                            *)
C24_OptionsSegments ==
    /\ [](/\ nlines <= Len(input.file) + Len(input.options)
          /\ (conf_pc = "options" /\ input.fname) => nlines >= Len(input.file)
          /\ conf_pc = "file" => (input.fname /\ nlines <= Len(input.file))
          /\ ~input.fname => input.file = << >>)
    /\ [][SegmentStep =>
            LET seg == input.options[nlines - Len(input.file) + 1]
            IN  seg.len < LINEBUF => LineApplied(seg.payload)]_vars
    /\ [][FileLineStep =>
            LET line == input.file[nlines + 1]
            IN  IF ~line.nl \/ line.len - 1 >= LINEBUF - 1
                THEN conf_pc' = "failed" /\ conf_err' = "too long line"
                ELSE LineApplied(line.payload)]_vars
    /\ [][EndStep =>
            /\ nlines = Len(input.file) + Len(input.options)
            /\ conf_err' = IF MandatoryMissing(rd) # "none" THEN MandatoryMissing(rd)
                           ELSE IF SameFileName(SetDefaults(rd))
                           THEN "cannot set the same file name" ELSE "none"]_vars

\* options of two short segments and a directive after the last newline:
\* both segments were applied, the rest was not, and ParseControlFile went on
\* to its checks
C24_Witness ==
    /\ input.tail = [payload |-> Directive("VERBOSE", Word("YES")), len |-> 8]
    /\ ~input.fname
    /\ Len(input.options) = 2
    /\ input.options[1].payload = Directive("TABLE", Word("t"))
    /\ input.options[2].payload = Other("empty")
    /\ nlines = 2
    /\ ~buf.overrun
    /\ conf_pc = "failed"
    /\ conf_err = "no TYPE specified"

(* ================================================================== *)
(* Properties of TupleFormerInit (SpecFormer)                          *)
(* ================================================================== *)

\* TupleFormerInit has returned
FormerDone == fm_pc \in {"done", "null_tuple", "crashed"}

(* C26: expected field counts from TupleFormerInit.  Once it has returned:
   without a filter, maxfields = minfields = the number of columns of the
   target that are not dropped, and attnum[0..maxfields-1] lists the
   positions of those columns in strictly increasing order; with a filter,
   maxfields = the function's argument count and minfields = maxfields minus
   its number of default arguments; in both cases 0 <= minfields <= maxfields
   and values and isnull hold max(argument count, column count) entries.  No
   write falls outside of an array, those of TupleFormerNullTuple, one entry
   per column of the target, included. *)
C26_FieldCounts ==
    /\ ~former.overrun
    /\ fm_pc # "crashed"
    /\ FormerDone =>
        LET flt == fm_args.filter
            desc == fm_args.desc
            fields == 0..(former.maxfields - 1)
            entries == 0..(Max(flt.nargs, natts(desc)) - 1)
        IN  /\ ~flt.funcstr =>
                /\ former.maxfields = Cardinality(NonDropped(desc))
                /\ former.minfields = former.maxfields
                /\ {former.attnum[k] : k \in fields} = NonDropped(desc)
                /\ \A k, l \in fields : k < l => former.attnum[k] < former.attnum[l]
            /\ flt.funcstr =>
                /\ former.maxfields = flt.nargs
                /\ former.minfields = former.maxfields - flt.fn_ndargs
            /\ 0 <= former.minfields
            /\ former.minfields <= former.maxfields
            /\ DOMAIN former.values = entries
            /\ DOMAIN former.isnull = entries

\* a null tuple was formed for a function of fewer arguments than the target
\* has columns, one of them with a default, the first column dropped
C26_Witness ==
    /\ fm_pc = "null_tuple"
    /\ fm_args.filter.funcstr
    /\ fm_args.filter.fn_ndargs > 0
    /\ fm_args.filter.nargs < natts(fm_args.desc)
    /\ 0 \notin NonDropped(fm_args.desc)
    /\ \A j \in 0..(natts(fm_args.desc) - 1) : former.isnull[j]

====
